---- MODULE Spec2Model ----
(***************************************************************************)
(* ControlTester_3000: the ingestion-and-assessment pipeline and the       *)
(* session stores, modelled from utils/llm_chain.py, api/main.py and       *)
(* utils/audit_session_store.py.                                           *)
(*                                                                         *)
(* These specifications share one state:                                   *)
(*   SpecAssess  assess_evidence_with_kb: the thread-pool fan-out          *)
(*   SpecIngest  build_knowledge_base behind the /build-knowledge-base     *)
(*               endpoint and its cache                                    *)
(*   SpecStore   AuditSessionStore and SessionMemory, one handler per step *)
(*   SpecAudit   the life of one AuditSessionStore session: test script,   *)
(*               uploads, end of the analysis                              *)
(*   SpecConc    AuditSessionStore with two threads whose handlers         *)
(*               interleave at their reads and writes of the store         *)
(*   SpecChat    the /chat and /assess-evidence endpoints over             *)
(*               SessionMemory and the evidence entry of the index cache   *)
(*   SpecBuild   the three index builders of utils/llm_chain.py, one call  *)
(*               at a time                                                 *)
(*   SpecPersist the /save-vectorstore and /load-vectorstore endpoints     *)
(*               over the index cache and the directories on disk          *)
(*   SpecCancel  build_knowledge_base and assess_evidence_with_kb with a   *)
(*               caller that signals cancellation during the call          *)
(*   SpecServe   two requests in flight on the server's event loop, each   *)
(*               handler stepping through its searches and index writes    *)
(***************************************************************************)
EXTENDS Integers, Sequences, FiniteSets, TLC

(***************************************************************************)
(* Bounds of the model.                                                    *)
(***************************************************************************)
MaxDocs == 2
MaxChunks == 3
MaxWorkers == 2
MaxBatch == 2
MaxRetries == 3
MaxTime == 3
MaxHistory == 2
MaxExchanges == 2

\* Outcomes of splitting one document: -1 the splitter raises, 0 the page
\* content is empty or whitespace, k > 0 the splitter returns k chunks.
SplitCounts == {-1, 0, 1, 2}

VARIABLES
    \* assess_evidence_with_kb
    runPc,          \* "idle", "pool", "returned", "raised"
    evid_texts,     \* the chunks submitted, <<doc, split>> each
    max_workers,
    taskState,      \* per submitted task: "queued", "running", "done"
    taskFate,       \* per finished task: what happened inside it
    futures,        \* per task: the future's outcome once done
    collected,      \* the futures as_completed has yielded
    results         \* the list assess_evidence_with_kb builds

assessVars == <<runPc, evid_texts, max_workers, taskState, taskFate, futures, collected, results>>

VARIABLES
    \* build_knowledge_base behind the /build-knowledge-base endpoint
    ingPc,          \* "idle", "batching", "built", "failed", "responded"
    ingErr,         \* what build_knowledge_base raised: "none", "no_content", "batch_failed"
    all_documents,  \* the chunks of the call, <<doc, split>> each
    batch_size,
    max_retries,
    kb_type,
    batch_idx,      \* offset of the current batch in all_documents
    attempt,        \* the retry loop's counter
    kb_vectorstore, \* the accumulating index: its records in order; <<>> is None
    embed_calls,    \* calls of FAISS.from_documents made by this call
    failsOnBatch,   \* of those, the failed ones on the current batch
    kbResp,         \* the endpoint's last response: "none", "success", "failed"
    delay_between_batches,
    backoffs,       \* the backoff sleeps made on the current batch, in order
    cache           \* VECTORSTORE_CACHE: kb_type -> the index (<<>> is None), with
                    \* the all_documents of the call that assigned it

ingestVars == <<ingPc, ingErr, all_documents, batch_size, max_retries, kb_type, batch_idx,
                attempt, kb_vectorstore, embed_calls, failsOnBatch, kbResp,
                delay_between_batches, backoffs, cache>>

VARIABLES
    \* AuditSessionStore
    sessions,       \* self.sessions: session_id -> session dict
    dirs,           \* the session ids whose TEMP_DIR_BASE / session_id exists on disk
    now,            \* datetime.now(), in hours
    storeErr,       \* what the last handler raised: "none", "ValueError", "KeyError"
    lastOp,         \* the last step: the handler called, its session id, whether the
                    \* id was in the store
    swept,          \* the sessions the last cleanup_expired_sessions removed
    spared          \* the sessions the last cleanup_expired_sessions left

storeVars == <<sessions, dirs, now, storeErr, lastOp, swept, spared>>

VARIABLES
    \* SessionMemory (api/main.py)
    memSessions     \* session_manager.sessions: session_id -> session dict

memoryVars == <<memSessions>>

VARIABLES
    \* two threads calling AuditSessionStore handlers on one session id
    started,        \* a thread has entered a handler
    snap,           \* self.sessions when the first thread entered its handler
    tpc,            \* per thread: where it is in its handler
    top,            \* per thread: the handler it runs, with its arguments
    tloc,           \* per thread: its locals (the evidence_manifest reference, new_status)
    tret,           \* per thread: "none", "ok", or the exception its handler raised
    obs             \* per thread: what get_session_temp_dir's caller saw

concVars == <<started, snap, tpc, top, tloc, tret, obs>>

VARIABLES
    \* the /chat endpoint
    evidenceCache,  \* VECTORSTORE_CACHE["evidence"]
    chatRead,       \* per session id: what its last chat request read
    ownLog          \* per session id: the requests made under that id

chatVars == <<evidenceCache, chatRead, ownLog>>

VARIABLES
    \* build_company_knowledge_base
    coPc,           \* "idle", "docs", "checked", "embedding", "merging", "built", "failed"
    coDocs,         \* the documents given, by the outcome of splitting each
    coArgs,         \* max_workers, max_retries, batch_size, batch_vectorstore, batch_vectorstore_size
    coBatch,        \* index before the first document of the current batch
    coDone,         \* documents of the current batch whose future was yielded
    all_texts,
    vectorstores,
    company_vectorstore,
    coErr,
    coEmbedCalls,   \* calls of FAISS.from_texts made
    coAttempts,     \* per document: attempts process_doc_with_retries made on it
    \* build_evidence_vectorstore
    evPc,           \* "idle", "built", "failed"
    evDocs,
    evidence_vectorstore,
    evErr,
    evEmbedCalls

companyVars == <<coPc, coDocs, coArgs, coBatch, coDone, all_texts, vectorstores,
                 company_vectorstore, coErr, coEmbedCalls, coAttempts>>

evidenceVars == <<evPc, evDocs, evidence_vectorstore, evErr, evEmbedCalls>>

buildVars == <<companyVars, evidenceVars>>

VARIABLES
    \* saved indices
    disk,           \* per path: is there a directory, and what load_local finds in it
    lastLoad        \* the last /load-vectorstore request: path state, status, cache before

persistVars == <<disk, lastLoad>>

VARIABLES
    \* requests in flight on the event loop of api/main.py
    reqPc,          \* per request: where its handler stands
    reqSid,         \* per request: the session id of a /chat request
    searching,      \* per index: who is inside similarity_search on it
    writing,        \* per index: who is inside add_documents or merge_from on it
    convIndex,      \* per session id: exchanges in its conversation index, 0 for None
    poolTask        \* per request: the tasks of its assessment pool

serveVars == <<reqPc, reqSid, searching, writing, convIndex, poolTask>>

VARIABLES
    \* the caller of build_knowledge_base or assess_evidence_with_kb
    cancel          \* has the caller signalled cancellation, and where the call stood then

cancelVars == <<cancel>>

vars == <<assessVars, ingestVars, storeVars, memoryVars, concVars, chatVars, buildVars,
          persistVars, serveVars, cancelVars>>

(***************************************************************************)
(* Helpers                                                                 *)
(***************************************************************************)

RECURSIVE CountIn(_, _)
CountIn(s, x) == IF s = <<>> THEN 0 ELSE (IF Head(s) = x THEN 1 ELSE 0) + CountIn(Tail(s), x)

Range(s) == {s[i] : i \in DOMAIN s}

\* The chunk loop shared by build_knowledge_base and assess_evidence_with_kb:
\* a document that is empty is skipped, one whose splitting raises is logged
\* and skipped, any other contributes its splits in order.
RECURSIVE SplitFrom(_, _)
SplitFrom(docs, i) ==
    IF i > Len(docs) THEN <<>>
    ELSE (IF docs[i] <= 0 THEN <<>> ELSE [j \in 1..docs[i] |-> <<i, j>>]) \o SplitFrom(docs, i + 1)

SplitDocs(docs) == SplitFrom(docs, 1)

\* The document lists a call is given: at most MaxDocs documents that yield at
\* most MaxChunks chunks together.
DocLists ==
    {d \in UNION {[1..n -> SplitCounts] : n \in 0..MaxDocs} : Len(SplitDocs(d)) <= MaxChunks}

(***************************************************************************)
(* assess_evidence_with_kb and _assess_single_evidence                     *)
(***************************************************************************)
\* What can happen inside one task: both searches and the llm call succeed,
\* or one of the three raises.
Fates == {"ok", "base_search_error", "company_search_error", "llm_error"}

NoFuture == [kind |-> "pending"]

\* _assess_single_evidence as the pool sees it: the value or exception the
\* future ends with. The except clause turns every failure into a record.
AssessSingleNoCatch(fate) ==
    IF fate = "ok"
    THEN [kind |-> "value", assessment |-> "answer"]
    ELSE [kind |-> "exception", assessment |-> fate]

AssessSingle(fate) ==
    IF fate = "ok"
    THEN [kind |-> "value", assessment |-> "answer"]
    ELSE [kind |-> "value", assessment |-> "Error"]

\* results.append(future.result()) for a future that holds a value.
AppendResultSkipErrors(res, fut) ==
    IF fut.assessment = "Error" THEN res ELSE Append(res, [assessment |-> fut.assessment])

AppendResult(res, fut) == Append(res, [assessment |-> fut.assessment])

Tasks == DOMAIN evid_texts

Running == {i \in Tasks : taskState[i] = "running"}

Queued == {i \in Tasks : taskState[i] = "queued"}

\* The call: split the evidence, return [] when nothing is left, else submit
\* one task per chunk to a pool of max_workers threads.
AssessStart(docs, w) ==
    /\ runPc = "idle"
    /\ LET texts == SplitDocs(docs) IN
        /\ evid_texts' = texts
        /\ max_workers' = w
        /\ taskState' = [i \in DOMAIN texts |-> "queued"]
        /\ taskFate' = [i \in DOMAIN texts |-> "none"]
        /\ futures' = [i \in DOMAIN texts |-> NoFuture]
        /\ collected' = {}
        /\ results' = <<>>
        /\ runPc' = IF texts = <<>> THEN "returned" ELSE "pool"

\* ThreadPoolExecutor(max_workers) has a thread free for a queued task while
\* fewer than max_workers of its tasks are running.
IdleWorkerUnbounded(running, w) == TRUE

IdleWorker(running, w) == Cardinality(running) < w

\* An idle worker thread takes the oldest queued task.
WorkerStart(i) ==
    /\ runPc = "pool"
    /\ i \in Queued
    /\ \A j \in Queued : i <= j
    /\ IdleWorker(Running, max_workers)
    /\ taskState' = [taskState EXCEPT ![i] = "running"]
    /\ UNCHANGED <<runPc, evid_texts, max_workers, taskFate, futures, collected, results>>

\* The task runs _assess_single_evidence to its end.
WorkerFinish(i, fate) ==
    /\ runPc = "pool"
    /\ i \in Running
    /\ taskState' = [taskState EXCEPT ![i] = "done"]
    /\ taskFate' = [taskFate EXCEPT ![i] = fate]
    /\ futures' = [futures EXCEPT ![i] = AssessSingle(fate)]
    /\ UNCHANGED <<runPc, evid_texts, max_workers, collected, results>>

\* as_completed yields a finished future; future.result() re-raises what the
\* task raised, which leaves the with block and the function.
Collect(i) ==
    /\ runPc = "pool"
    /\ i \in Tasks \ collected
    /\ taskState[i] = "done"
    /\ collected' = collected \cup {i}
    /\ IF futures[i].kind = "exception"
       THEN /\ runPc' = "raised"
            /\ UNCHANGED results
       ELSE /\ results' = AppendResult(results, futures[i])
            /\ UNCHANGED runPc
    /\ UNCHANGED <<evid_texts, max_workers, taskState, taskFate, futures>>

\* Every future has been yielded: the pool shuts down and results is returned.
AssessReturn ==
    /\ runPc = "pool"
    /\ collected = Tasks
    /\ runPc' = "returned"
    /\ UNCHANGED <<evid_texts, max_workers, taskState, taskFate, futures, collected, results>>

AssessInit ==
    /\ runPc = "idle"
    /\ evid_texts = <<>>
    /\ max_workers = 1
    /\ taskState = <<>>
    /\ taskFate = <<>>
    /\ futures = <<>>
    /\ collected = {}
    /\ results = <<>>

(***************************************************************************)
(* build_knowledge_base and the build_kb endpoint                          *)
(***************************************************************************)
KbTypes == {"global"}

NoIndex == <<>>

\* FAISS.from_documents(batch_docs, embeddings) when the embedding succeeds:
\* one record per document of the batch, in the batch's order.
FromDocuments(batch_docs) == batch_docs

\* kb_vectorstore.merge_from(temp_vectorstore): the records of temp are
\* appended after those of kb.
MergeFromInFront(kb, temp) == temp \o kb

MergeFrom(kb, temp) == kb \o temp

\* similarity_search(query, k) on an index: its k nearest records, the
\* earlier-inserted first among records at the same distance. The distance
\* of a record to a query depends on the text only.
Queries == {0, 1}

Distance(q, rec) == (rec[1] + q) % 2

RemoveAt(ix, i) == SubSeq(ix, 1, i - 1) \o SubSeq(ix, i + 1, Len(ix))

RECURSIVE SimilaritySearch(_, _, _)
SimilaritySearch(ix, q, k) ==
    IF k = 0 \/ ix = <<>> THEN <<>>
    ELSE LET best == CHOOSE i \in DOMAIN ix :
                        \A j \in DOMAIN ix :
                            \/ Distance(q, ix[i]) < Distance(q, ix[j])
                            \/ Distance(q, ix[i]) = Distance(q, ix[j]) /\ i <= j
         IN  <<ix[best]>> \o SimilaritySearch(RemoveAt(ix, best), q, k - 1)

\* all_documents[batch_idx:batch_idx + batch_size]
BatchDocs(docs, idx, bs) == SubSeq(docs, idx + 1, IF idx + bs < Len(docs) THEN idx + bs ELSE Len(docs))

\* The try body of one attempt that does not raise.
AttemptBody(kb, batch_docs) ==
    IF kb = NoIndex THEN FromDocuments(batch_docs) ELSE MergeFrom(kb, FromDocuments(batch_docs))

\* The accumulating index after an attempt that raised: kb_vectorstore is
\* assigned only when from_documents returned and changed only by a merge_from
\* that returned, and the batch's temporary index is dropped.
AttemptRaisedMerged(kb, batch_docs) == AttemptBody(kb, batch_docs)

AttemptRaised(kb, batch_docs) == kb

\* total_batches = (len(all_documents) + batch_size - 1) // batch_size
TotalBatches(n, bs) == (n + bs - 1) \div bs

\* `if attempt < max_retries - 1` fails: the attempt that raised was the last.
LastAttemptOneLate(a, mr) == ~(a < mr)

LastAttemptOneEarly(a, mr) == ~(a < mr - 2)

LastAttempt(a, mr) == ~(a < mr - 1)

\* The endpoint's cache after the call: VECTORSTORE_CACHE[kb_type] is assigned
\* only when build_knowledge_base returned.
CacheAfterAlways(c, kt, pc, kb, docs) == [c EXCEPT ![kt] = [index |-> kb, input |-> docs]]

CacheAfter(c, kt, pc, kb, docs) ==
    IF pc = "built" THEN [c EXCEPT ![kt] = [index |-> kb, input |-> docs]] ELSE c

\* The delays a call is given (KBReq allows 0.0 to 10.0).
Delays == {1, 3}

\* wait_time = delay_between_batches * (2 ** attempt)
WaitTimeOneLate(delay, a) == delay * (2 ^ (a + 1))

WaitTime(delay, a) == delay * (2 ^ a)

\* `if not all_documents` (`if not all_texts`, `if not texts`): the builders
\* raise ValueError("No valid content found ...").
NoValidContentNever(chunks) == FALSE

NoValidContent(chunks) == chunks = <<>>

\* The endpoint validated batch_size >= 1 and max_retries >= 1 (KBReq); the
\* call splits the documents and raises ValueError when no chunk is left.
BuildKbStart(docs, bs, mr, kt, delay) ==
    /\ ingPc = "idle"
    /\ LET chunks == SplitDocs(docs) IN
        /\ all_documents' = chunks
        /\ ingPc' = IF NoValidContent(chunks) THEN "failed" ELSE "batching"
        /\ ingErr' = IF NoValidContent(chunks) THEN "no_content" ELSE "none"
    /\ batch_size' = bs
    /\ max_retries' = mr
    /\ kb_type' = kt
    /\ batch_idx' = 0
    /\ attempt' = 0
    /\ kb_vectorstore' = NoIndex
    /\ embed_calls' = 0
    /\ failsOnBatch' = 0
    /\ kbResp' = "none"
    /\ delay_between_batches' = delay
    /\ backoffs' = <<>>
    /\ UNCHANGED cache

\* One attempt on the current batch succeeds: the batch is embedded and
\* merged, and the loop moves to the next batch or ends.
EmbedOk ==
    /\ ingPc = "batching"
    /\ kb_vectorstore' = AttemptBody(kb_vectorstore, BatchDocs(all_documents, batch_idx, batch_size))
    /\ embed_calls' = embed_calls + 1
    /\ IF batch_idx + batch_size < Len(all_documents)
       THEN /\ batch_idx' = batch_idx + batch_size
            /\ attempt' = 0
            /\ failsOnBatch' = 0
            /\ backoffs' = <<>>
            /\ UNCHANGED ingPc
       ELSE /\ ingPc' = "built"
            /\ UNCHANGED <<batch_idx, attempt, failsOnBatch, backoffs>>
    /\ UNCHANGED <<ingErr, all_documents, batch_size, max_retries, kb_type, kbResp,
                   delay_between_batches, cache>>

\* One attempt on the current batch raises, in the embedding call or at the
\* merge: back off and retry, or re-raise after the last attempt.
EmbedFail ==
    /\ ingPc = "batching"
    /\ kb_vectorstore' = AttemptRaised(kb_vectorstore, BatchDocs(all_documents, batch_idx, batch_size))
    /\ embed_calls' = embed_calls + 1
    /\ failsOnBatch' = failsOnBatch + 1
    /\ IF LastAttempt(attempt, max_retries)
       THEN /\ ingPc' = "failed"
            /\ ingErr' = "batch_failed"
            /\ UNCHANGED <<attempt, backoffs>>
       ELSE /\ backoffs' = Append(backoffs, WaitTime(delay_between_batches, attempt))
            /\ attempt' = attempt + 1
            /\ UNCHANGED <<ingPc, ingErr>>
    /\ UNCHANGED <<all_documents, batch_size, max_retries, kb_type, batch_idx, kbResp,
                   delay_between_batches, cache>>

\* build_kb after the call: cache and answer success, or answer failure.
BuildKbRespond ==
    /\ ingPc \in {"built", "failed"}
    /\ cache' = CacheAfter(cache, kb_type, ingPc, kb_vectorstore, all_documents)
    /\ kbResp' = IF ingPc = "built" THEN "success" ELSE "failed"
    /\ ingPc' = "responded"
    /\ UNCHANGED <<ingErr, all_documents, batch_size, max_retries, kb_type, batch_idx, attempt,
                   kb_vectorstore, embed_calls, failsOnBatch, delay_between_batches, backoffs>>

\* The request ends (the finally clause closes the files): the call's locals
\* are gone and only the cache stays.
BuildKbFinally ==
    /\ ingPc = "responded"
    /\ ingPc' = "idle"
    /\ ingErr' = "none"
    /\ all_documents' = <<>>
    /\ batch_size' = 1
    /\ max_retries' = 1
    /\ kb_type' = "global"
    /\ batch_idx' = 0
    /\ attempt' = 0
    /\ kb_vectorstore' = NoIndex
    /\ embed_calls' = 0
    /\ failsOnBatch' = 0
    /\ kbResp' = "none"
    /\ delay_between_batches' = 1
    /\ backoffs' = <<>>
    /\ UNCHANGED cache

\* build_knowledge_base called directly, not through the endpoint: the
\* call returns or raises and nothing is cached.
BuildKbReturn ==
    /\ ingPc \in {"built", "failed"}
    /\ ingPc' = "idle"
    /\ ingErr' = "none"
    /\ all_documents' = <<>>
    /\ batch_size' = 1
    /\ max_retries' = 1
    /\ kb_type' = "global"
    /\ batch_idx' = 0
    /\ attempt' = 0
    /\ kb_vectorstore' = NoIndex
    /\ embed_calls' = 0
    /\ failsOnBatch' = 0
    /\ kbResp' = "none"
    /\ delay_between_batches' = 1
    /\ backoffs' = <<>>
    /\ UNCHANGED cache

IngestInit ==
    /\ ingPc = "idle"
    /\ ingErr = "none"
    /\ all_documents = <<>>
    /\ batch_size = 1
    /\ max_retries = 1
    /\ kb_type = "global"
    /\ batch_idx = 0
    /\ attempt = 0
    /\ kb_vectorstore = NoIndex
    /\ embed_calls = 0
    /\ failsOnBatch = 0
    /\ delay_between_batches = 1
    /\ backoffs = <<>>
    /\ kbResp = "none"
    /\ cache = [kt \in KbTypes |-> [index |-> NoIndex, input |-> <<>>]]

(***************************************************************************)
(* AuditSessionStore, one handler per step                                 *)
(***************************************************************************)
\* AUDIT_SESSION_TTL_HOURS is read from the environment (default "24"); the
\* model runs with the store configured to two hours.
AUDIT_SESSION_TTL_HOURS == 2

Ids == {"s1", "s2"}

ControlIds == {"c1", "c2"}

Filenames == {"f1", "f2"}

EmptyDict == [k \in {} |-> "None"]

\* The dict create_session stores (the model name and the report paths are
\* left out: no handler reads them).
NewSession(t) ==
    [status |-> "awaiting_evidence",
     created_at |-> t,
     last_activity |-> t,
     test_script_filename |-> "None",
     controls |-> <<>>,
     evidence_manifest |-> EmptyDict,
     uploaded_files |-> EmptyDict,
     analysis_complete |-> FALSE]

\* The manifest set_test_script builds: one pending entry per control id.
ManifestOf(controls) ==
    [c \in Range(controls) |->
        [status |-> "pending", rejection_reason |-> "None", satisfied_by_file |-> "None"]]

\* set_test_script followed by update_session's timestamp.
SetTestScriptFn(s, filename, controls, t) ==
    [s EXCEPT !.test_script_filename = filename,
              !.controls = controls,
              !.evidence_manifest = ManifestOf(controls),
              !.last_activity = t]

\* uploaded_files[filename] = {...}
WithFile(files, filename, vr) ==
    [f \in DOMAIN files \cup {filename} |->
        IF f = filename
        THEN [validation_status |-> vr.validation_status,
              rejection_reason |-> vr.rejection_reason,
              satisfies_controls |-> vr.satisfies_controls]
        ELSE files[f]]

\* The manifest loop of add_uploaded_file: each satisfied control that the
\* manifest knows becomes received (by this file) or rejected (with the reason).
MarkControls(manifest, filename, vr) ==
    [c \in DOMAIN manifest |->
        IF c \in vr.satisfies_controls
        THEN IF vr.validation_status = "accepted"
             THEN [manifest[c] EXCEPT !.status = "received", !.satisfied_by_file = filename]
             ELSE [manifest[c] EXCEPT !.status = "rejected", !.rejection_reason = vr.rejection_reason]
        ELSE manifest[c]]

PendingCount(manifest) == Cardinality({c \in DOMAIN manifest : manifest[c].status = "pending"})

NewStatus(manifest) == IF PendingCount(manifest) = 0 THEN "ready" ELSE "partially_received"

AddUploadedFileFn(s, filename, vr, t) ==
    LET manifest == MarkControls(s.evidence_manifest, filename, vr) IN
    [s EXCEPT !.uploaded_files = WithFile(s.uploaded_files, filename, vr),
              !.evidence_manifest = manifest,
              !.status = NewStatus(manifest),
              !.last_activity = t]

MarkAnalysisCompleteFn(s, t) ==
    [s EXCEPT !.status = "complete", !.analysis_complete = TRUE, !.last_activity = t]

Present == DOMAIN sessions

Without(ss, gone) == [i \in DOMAIN ss \ gone |-> ss[i]]

With(ss, id, s) == [i \in DOMAIN ss \cup {id} |-> IF i = id THEN s ELSE ss[i]]

Called(op, id) ==
    /\ lastOp' = [op |-> op, id |-> id, found |-> id \in Present]
    /\ swept' = {}
    /\ spared' = {}

\* create_session: make the directories and store a fresh dict under the id,
\* whether or not the id is in the store.
CreateSession(id) ==
    /\ dirs' = dirs \cup {id}
    /\ sessions' = With(sessions, id, NewSession(now))
    /\ storeErr' = "none"
    /\ Called("create_session", id)
    /\ UNCHANGED now

GetSession(id) ==
    /\ storeErr' = "none"
    /\ Called("get_session", id)
    /\ UNCHANGED <<sessions, dirs, now>>

\* A handler that raises ValueError for an unknown id and otherwise replaces
\* the session by `after`.
UpdateOrRaise(op, id, after) ==
    /\ IF id \in Present
       THEN /\ sessions' = With(sessions, id, after)
            /\ storeErr' = "none"
       ELSE /\ storeErr' = "ValueError"
            /\ UNCHANGED sessions
    /\ Called(op, id)
    /\ UNCHANGED <<dirs, now>>

SetTestScript(id, filename, controls) ==
    UpdateOrRaise("set_test_script", id, SetTestScriptFn(sessions[id], filename, controls, now))

AddUploadedFile(id, filename, vr) ==
    UpdateOrRaise("add_uploaded_file", id, AddUploadedFileFn(sessions[id], filename, vr, now))

MarkAnalysisComplete(id) ==
    UpdateOrRaise("mark_analysis_complete", id, MarkAnalysisCompleteFn(sessions[id], now))

\* The directories left after clear_session's rmtree on the ids in `gone`, of
\* which those in `stuck` make rmtree raise (the error is logged).
DirsAfterRmtree(d, gone, stuck) == d \ (gone \ stuck)

ClearSessionUnguarded(id, rmtreeRaises) ==
    /\ dirs' = DirsAfterRmtree(dirs, {id} \cap Present, IF rmtreeRaises THEN {id} ELSE {})
    /\ sessions' = Without(sessions, {id})
    /\ storeErr' = IF id \in Present THEN "none" ELSE "KeyError"
    /\ Called("clear_session", id)
    /\ UNCHANGED now

\* clear_session: nothing for an unknown id; else delete the directory if it
\* exists, then delete the session from the store.
ClearSession(id, rmtreeRaises) ==
    /\ IF id \in Present
       THEN /\ dirs' = DirsAfterRmtree(dirs, {id}, IF rmtreeRaises THEN {id} ELSE {})
            /\ sessions' = Without(sessions, {id})
       ELSE UNCHANGED <<sessions, dirs>>
    /\ storeErr' = "none"
    /\ Called("clear_session", id)
    /\ UNCHANGED now

ExpiredAtTTL(ss, t) == {i \in DOMAIN ss : t - ss[i].created_at >= AUDIT_SESSION_TTL_HOURS}

ExpiredByActivity(ss, t) == {i \in DOMAIN ss : t - ss[i].last_activity > AUDIT_SESSION_TTL_HOURS}

\* The sessions cleanup_expired_sessions collects.
Expired(ss, t) == {i \in DOMAIN ss : t - ss[i].created_at > AUDIT_SESSION_TTL_HOURS}

Stamp(ss, ids) == {[id |-> i, created_at |-> ss[i].created_at, last_activity |-> ss[i].last_activity] : i \in ids}

\* cleanup_expired_sessions: clear_session on every expired session; rmtree
\* raises for those in `stuck`.
CleanupExpiredSessions(stuck) ==
    /\ stuck \subseteq Expired(sessions, now)
    /\ sessions' = Without(sessions, Expired(sessions, now))
    /\ dirs' = DirsAfterRmtree(dirs, Expired(sessions, now), stuck)
    /\ storeErr' = "none"
    /\ lastOp' = [op |-> "cleanup_expired_sessions", id |-> "None", found |-> Expired(sessions, now) # {}]
    /\ swept' = Stamp(sessions, Expired(sessions, now))
    /\ spared' = Stamp(sessions, Present \ Expired(sessions, now))
    /\ UNCHANGED now

Tick ==
    /\ now < MaxTime
    /\ now' = now + 1
    /\ lastOp' = [op |-> "tick", id |-> "None", found |-> FALSE]
    /\ swept' = {}
    /\ spared' = {}
    /\ UNCHANGED <<sessions, dirs, storeErr>>

StoreInit ==
    /\ sessions = EmptyDict
    /\ dirs = {}
    /\ now = 0
    /\ storeErr = "none"
    /\ lastOp = [op |-> "init", id |-> "None", found |-> FALSE]
    /\ swept = {}
    /\ spared = {}

(***************************************************************************)
(* SessionMemory (api/main.py), one handler per step                       *)
(***************************************************************************)
Roles == {"user", "assistant"}

NewMemSession(t) ==
    [created_at |-> t,
     message_count |-> 0,
     chat_history |-> <<>>,
     conversation_vectorstore |-> NoIndex,
     last_activity |-> t]

\* self.sessions after create_session: a fresh dict only for an unknown id.
MemCreated(ms, id, t) == IF id \in DOMAIN ms THEN ms ELSE With(ms, id, NewMemSession(t))

MemCalled(op, id) ==
    /\ lastOp' = [op |-> op, id |-> id, found |-> id \in DOMAIN memSessions]
    /\ storeErr' = "none"
    /\ swept' = {}
    /\ spared' = {}
    /\ UNCHANGED <<sessions, dirs, now>>

MemCreateSession(id) ==
    /\ memSessions' = MemCreated(memSessions, id, now)
    /\ MemCalled("memory.create_session", id)

MemGetSession(id) ==
    /\ UNCHANGED memSessions
    /\ MemCalled("memory.get_session", id)

\* add_message: create the session if needed, append, count, touch.
MemAddMessage(id, role) ==
    /\ LET ms == MemCreated(memSessions, id, now) IN
        /\ Len(ms[id].chat_history) < MaxHistory
        /\ memSessions' =
            With(ms, id, [ms[id] EXCEPT
                !.chat_history = Append(@, [role |-> role, timestamp |-> now]),
                !.message_count = @ + 1,
                !.last_activity = now])
    /\ MemCalled("memory.add_message", id)

\* self.sessions after clear_session: the id is deleted when it is there.
MemCleared(ms, id) == IF id \in DOMAIN ms THEN Without(ms, {id}) ELSE ms

MemClearSession(id) ==
    /\ memSessions' = MemCleared(memSessions, id)
    /\ MemCalled("memory.clear_session", id)

MemUpdateVectorstore(id, vs) ==
    /\ memSessions' =
        IF id \in DOMAIN memSessions
        THEN With(memSessions, id, [memSessions[id] EXCEPT !.conversation_vectorstore = vs])
        ELSE memSessions
    /\ MemCalled("memory.update_vectorstore", id)

MemoryInit == memSessions = EmptyDict

(***************************************************************************)
(* AuditSessionStore under two threads. The store takes no lock, so the    *)
(* handlers interleave at each read and write of self.sessions and of the  *)
(* dicts it holds. session.get("evidence_manifest") hands out a reference: *)
(* a thread's manifest is the store's dict until another thread's update   *)
(* puts a new dict in its place, and from then on a dict of its own.       *)
(***************************************************************************)
Threads == {1, 2}

ConcId == "s1"

NoArgs == [validation_status |-> "None", rejection_reason |-> "None", satisfies_controls |-> {}]

Accepted(cs) == [validation_status |-> "accepted", rejection_reason |-> "None", satisfies_controls |-> cs]

Op(name, filename, vr, controls) == [name |-> name, filename |-> filename, vr |-> vr, controls |-> controls]

NoOp == Op("none", "None", NoArgs, <<>>)

\* The calls the threads make.
ConcOps ==
    {Op("add_uploaded_file", "f1", Accepted({"c1"}), <<>>),
     Op("add_uploaded_file", "f2", Accepted({"c2"}), <<>>),
     Op("set_test_script", "script", NoArgs, <<"c1">>),
     Op("clear_session", "None", NoArgs, <<>>),
     Op("get_session_temp_dir", "None", NoArgs, <<>>)}

NoLocals == [mref |-> "none", mval |-> EmptyDict, new_status |-> "None"]

NoObs == [seen |-> FALSE, session |-> FALSE, temp_dir |-> FALSE]

\* The evidence_manifest dict thread t holds a reference to.
View(t) == IF tloc[t].mref = "store" THEN sessions[ConcId].evidence_manifest ELSE tloc[t].mval

\* The store's evidence_manifest dict is replaced: every other thread that
\* referred to it keeps the old dict.
Detached(t) ==
    [u \in Threads |->
        IF u # t /\ tloc[u].mref = "store"
        THEN [tloc[u] EXCEPT !.mref = "own", !.mval = sessions[ConcId].evidence_manifest]
        ELSE tloc[u]]

\* The session's dict leaves self.sessions: a thread that holds it, or its
\* evidence_manifest, still reads what was in it.
Orphaned(t) ==
    [u \in Threads |->
        IF u # t /\ tloc[u].mref # "own"
        THEN [tloc[u] EXCEPT !.mref = IF @ = "store" THEN "own" ELSE @,
                             !.mval = sessions[ConcId].evidence_manifest]
        ELSE tloc[u]]

Finish(t, ret) ==
    /\ tpc' = [tpc EXCEPT ![t] = "done"]
    /\ tret' = [tret EXCEPT ![t] = ret]

Goto(t, pc) ==
    /\ tpc' = [tpc EXCEPT ![t] = pc]
    /\ UNCHANGED tret

\* A thread enters a handler.
Begin(t, op) ==
    /\ tpc[t] = "idle"
    /\ top' = [top EXCEPT ![t] = op]
    /\ started' = TRUE
    /\ snap' = IF started THEN snap ELSE sessions
    /\ Goto(t, "get")
    /\ UNCHANGED <<sessions, dirs, tloc, obs>>

\* session = self.get_session(session_id) in add_uploaded_file and
\* set_test_script: ValueError when there is none.
GetOrRaise(t) ==
    /\ tpc[t] = "get"
    /\ top[t].name \in {"add_uploaded_file", "set_test_script"}
    /\ IF ConcId \in Present
       THEN Goto(t, IF top[t].name = "add_uploaded_file" THEN "files" ELSE "update")
       ELSE Finish(t, "ValueError")
    /\ UNCHANGED <<sessions, dirs, started, snap, top, tloc, obs>>

\* uploaded_files[filename] = {...}, in place in the session's dict.
AddFiles(t) ==
    /\ tpc[t] = "files"
    /\ sessions' =
        IF ConcId \in Present
        THEN With(sessions, ConcId, [sessions[ConcId] EXCEPT
                !.uploaded_files = WithFile(@, top[t].filename, top[t].vr)])
        ELSE sessions
    /\ Goto(t, "manifest")
    /\ UNCHANGED <<dirs, started, snap, top, tloc, obs>>

\* evidence_manifest = session.get("evidence_manifest", {})
AddManifestRef(t) ==
    /\ tpc[t] = "manifest"
    /\ tloc' = [tloc EXCEPT ![t] =
            IF ConcId \in Present
            THEN [@ EXCEPT !.mref = "store"]
            ELSE [@ EXCEPT !.mref = "own"]]
    /\ Goto(t, "mark")
    /\ UNCHANGED <<sessions, dirs, started, snap, top, obs>>

\* The loop over satisfies_controls, in place in the dict the thread holds.
AddMark(t) ==
    /\ tpc[t] = "mark"
    /\ IF tloc[t].mref = "store"
       THEN /\ sessions' = With(sessions, ConcId, [sessions[ConcId] EXCEPT
                    !.evidence_manifest = MarkControls(@, top[t].filename, top[t].vr)])
            /\ UNCHANGED tloc
       ELSE /\ tloc' = [tloc EXCEPT ![t].mval = MarkControls(@, top[t].filename, top[t].vr)]
            /\ UNCHANGED sessions
    /\ Goto(t, "count")
    /\ UNCHANGED <<dirs, started, snap, top, obs>>

\* pending_count and new_status
AddCount(t) ==
    /\ tpc[t] = "count"
    /\ tloc' = [tloc EXCEPT ![t].new_status = NewStatus(View(t))]
    /\ Goto(t, "update")
    /\ UNCHANGED <<sessions, dirs, started, snap, top, obs>>

\* self.sessions[session_id].update(updates) of update_session, as
\* add_uploaded_file calls it: ValueError when the id is gone.
AddUpdate(t) ==
    /\ tpc[t] = "update"
    /\ top[t].name = "add_uploaded_file"
    /\ IF ConcId \in Present
       THEN /\ sessions' = With(sessions, ConcId, [sessions[ConcId] EXCEPT
                    !.evidence_manifest = View(t),
                    !.status = tloc[t].new_status])
            /\ tloc' = [IF tloc[t].mref = "store" THEN tloc ELSE Detached(t) EXCEPT ![t].mref = "store"]
            /\ Goto(t, "touch")
       ELSE /\ Finish(t, "ValueError")
            /\ UNCHANGED <<sessions, tloc>>
    /\ UNCHANGED <<dirs, started, snap, top, obs>>

\* The same line as set_test_script calls it, with a manifest dict of its own.
SetUpdate(t) ==
    /\ tpc[t] = "update"
    /\ top[t].name = "set_test_script"
    /\ IF ConcId \in Present
       THEN /\ sessions' = With(sessions, ConcId, [sessions[ConcId] EXCEPT
                    !.test_script_filename = top[t].filename,
                    !.controls = top[t].controls,
                    !.evidence_manifest = ManifestOf(top[t].controls)])
            /\ tloc' = Detached(t)
            /\ Goto(t, "touch")
       ELSE /\ Finish(t, "ValueError")
            /\ UNCHANGED <<sessions, tloc>>
    /\ UNCHANGED <<dirs, started, snap, top, obs>>

\* self.sessions[session_id]["last_activity"] = datetime.now().isoformat()
Touch(t) ==
    /\ tpc[t] = "touch"
    /\ IF ConcId \in Present
       THEN /\ sessions' = With(sessions, ConcId, [sessions[ConcId] EXCEPT !.last_activity = now])
            /\ Finish(t, "ok")
       ELSE /\ Finish(t, "KeyError")
            /\ UNCHANGED sessions
    /\ UNCHANGED <<dirs, started, snap, top, tloc, obs>>

\* session = self.get_session(session_id) in clear_session: return when
\* there is none.
ClearGet(t) ==
    /\ tpc[t] = "get"
    /\ top[t].name = "clear_session"
    /\ IF ConcId \in Present THEN Goto(t, "rmtree") ELSE Finish(t, "ok")
    /\ UNCHANGED <<sessions, dirs, started, snap, top, tloc, obs>>

\* if temp_dir.exists(): shutil.rmtree(temp_dir), which may raise.
ClearRmtree(t, rmtreeRaises) ==
    /\ tpc[t] = "rmtree"
    /\ dirs' = DirsAfterRmtree(dirs, {ConcId}, IF rmtreeRaises THEN {ConcId} ELSE {})
    /\ Goto(t, "del")
    /\ UNCHANGED <<sessions, started, snap, top, tloc, obs>>

\* del self.sessions[session_id]
ClearDel(t) ==
    /\ tpc[t] = "del"
    /\ IF ConcId \in Present
       THEN /\ sessions' = Without(sessions, {ConcId})
            /\ tloc' = Orphaned(t)
            /\ Finish(t, "ok")
       ELSE /\ Finish(t, "KeyError")
            /\ UNCHANGED <<sessions, tloc>>
    /\ UNCHANGED <<dirs, started, snap, top, obs>>

\* get_session_temp_dir: the session get_session returns, and whether the
\* directory it names is on disk.
GetSessionTempDir(t) ==
    /\ tpc[t] = "get"
    /\ top[t].name = "get_session_temp_dir"
    /\ obs' = [obs EXCEPT ![t] =
            [seen |-> TRUE, session |-> ConcId \in Present, temp_dir |-> ConcId \in dirs]]
    /\ Finish(t, "ok")
    /\ UNCHANGED <<sessions, dirs, started, snap, top, tloc>>

ConcInit ==
    /\ started = FALSE
    /\ snap = EmptyDict
    /\ tpc = [t \in Threads |-> "idle"]
    /\ top = [t \in Threads |-> NoOp]
    /\ tloc = [t \in Threads |-> NoLocals]
    /\ tret = [t \in Threads |-> "none"]
    /\ obs = [t \in Threads |-> NoObs]

(***************************************************************************)
(* The /chat endpoint (chat_with_memory) with chat_with_ai_with_memory and *)
(* update_conversation_vectorstore_api of utils/chat.py, and the write of  *)
(* the evidence index by /assess-evidence. An index is the sequence of its *)
(* records; the language model's answer is a value of Responses.          *)
(***************************************************************************)
Questions == {"q1", "q2"}

Responses == {"a1"}

EvidenceSets == {"e1", "e2"}

NoEvidence == "None"

ChatMessage(role, content, t) == [role |-> role, content |-> content, timestamp |-> t]

\* self.sessions after add_message(session_id, role, content)
MemAddedUncounted(ms, id, role, content, t) ==
    LET ms1 == MemCreated(ms, id, t) IN
    With(ms1, id, [ms1[id] EXCEPT
        !.chat_history = Append(@, ChatMessage(role, content, t)),
        !.last_activity = t])

MemAdded(ms, id, role, content, t) ==
    LET ms1 == MemCreated(ms, id, t) IN
    With(ms1, id, [ms1[id] EXCEPT
        !.chat_history = Append(@, ChatMessage(role, content, t)),
        !.message_count = @ + 1,
        !.last_activity = t])

\* session['chat_history'][-k*2:]
RecentHistory(h, k) == IF Len(h) <= 2 * k THEN h ELSE SubSeq(h, Len(h) - 2 * k + 1, Len(h))

\* The conversation index after one more exchange: FAISS.from_texts for the
\* first, add_documents afterwards.
ConversationAdded(vs, q, r) == Append(vs, <<q, r>>)

LogEntry(op, q, r) == [op |-> op, q |-> q, r |-> r]

NoRead == [seen |-> FALSE, before |-> <<>>, history |-> <<>>, conversation |-> <<>>, evidence |-> NoEvidence]

\* POST /chat under session id `id`. The session is created when unknown;
\* the request reads the recent history and the conversation index of its
\* session and the cached evidence index; when the model answers, both
\* messages are added and the exchange goes into the conversation index.
ChatWithMemory(id, q, r, llmRaises) ==
    LET ms == MemCreated(memSessions, id, now)
        session == ms[id]
    IN  /\ Len(ownLog[id]) < MaxExchanges
        /\ chatRead' = [chatRead EXCEPT ![id] =
                [seen |-> TRUE,
                 before |-> ownLog[id],
                 history |-> RecentHistory(session.chat_history, 10),
                 conversation |-> session.conversation_vectorstore,
                 evidence |-> evidenceCache]]
        /\ IF llmRaises
           THEN /\ memSessions' = ms
                /\ ownLog' = [ownLog EXCEPT ![id] = Append(@, LogEntry("chat_failed", q, "None"))]
           ELSE /\ LET ms2 == MemAdded(MemAdded(ms, id, "user", q, now), id, "assistant", r, now) IN
                    memSessions' = With(ms2, id, [ms2[id] EXCEPT
                        !.conversation_vectorstore = ConversationAdded(@, q, r)])
                /\ ownLog' = [ownLog EXCEPT ![id] = Append(@, LogEntry("chat", q, r))]
        /\ UNCHANGED evidenceCache

\* DELETE /session/{session_id}
ChatClearSession(id) ==
    /\ Len(ownLog[id]) < MaxExchanges
    /\ memSessions' = MemCleared(memSessions, id)
    /\ ownLog' = [ownLog EXCEPT ![id] = Append(@, LogEntry("clear", "None", "None"))]
    /\ UNCHANGED <<evidenceCache, chatRead>>

\* POST /assess-evidence, which takes no session id: the evidence index it
\* builds is put into the cache; when a step before that raises, the cache
\* entry stays.
AssessEvidenceCached(e, raises) ==
    /\ evidenceCache' = IF raises THEN evidenceCache ELSE e
    /\ UNCHANGED <<memSessions, chatRead, ownLog>>

ChatInit ==
    /\ evidenceCache = NoEvidence
    /\ chatRead = [id \in Ids |-> NoRead]
    /\ ownLog = [id \in Ids |-> <<>>]

(***************************************************************************)
(* build_company_knowledge_base: the documents are split by a thread pool, *)
(* one batch of documents at a time, and their chunks collected as the     *)
(* futures complete; the index is then built in one call or, for more than *)
(* batch_vectorstore_size chunks, batch by batch and merged.               *)
(***************************************************************************)
\* max_retries of build_company_knowledge_base: none, or the default.
DocRetries == {0, 2}

CompanyArgs ==
    [max_workers : 1..MaxWorkers,
     max_retries : DocRetries,
     batch_size : 1..MaxBatch,
     batch_vectorstore : BOOLEAN,
     batch_vectorstore_size : 1..MaxBatch]

NoArgsYet ==
    [max_workers |-> 1, max_retries |-> 0, batch_size |-> 1, batch_vectorstore |-> FALSE,
     batch_vectorstore_size |-> 1]

\* process_doc_with_retries: the passes of `for attempt in range(max_retries + 1)`
\* made on a document: an empty document returns in the first, a splitting
\* that raises is tried in every one.
DocAttemptsOneFewer(outcome, mr) == IF outcome = -1 THEN mr ELSE 1

DocAttempts(outcome, mr) == IF outcome = -1 THEN mr + 1 ELSE 1

\* process_doc_with_retries: no chunk for an empty document or one whose
\* splitting raises on every attempt, else the document's splits in order.
DocTexts(docs, i) == IF docs[i] <= 0 THEN <<>> ELSE [j \in 1..docs[i] |-> <<i, j>>]

\* The documents of the batch that starts after index b.
BatchOf(docs, b, bs) == {i \in 1..Len(docs) : b < i /\ i <= b + bs}

\* FAISS.from_texts(texts, ...) when the embedding succeeds.
FromTexts(texts) == texts

\* batch(iterable, n) as a sequence of slices.
RECURSIVE Batches(_, _)
Batches(texts, n) ==
    IF Len(texts) <= n THEN (IF texts = <<>> THEN <<>> ELSE <<texts>>)
    ELSE <<SubSeq(texts, 1, n)>> \o Batches(SubSeq(texts, n + 1, Len(texts)), n)

\* company_vectorstore = vectorstores[0]; merge_from each of the others.
RECURSIVE MergeAll(_, _)
MergeAll(acc, vss) == IF vss = <<>> THEN acc ELSE MergeAll(MergeFrom(acc, Head(vss)), Tail(vss))

CompanyStart(docs, args) ==
    /\ coPc = "idle"
    /\ coPc' = "docs"
    /\ coDocs' = docs
    /\ coArgs' = args
    /\ coBatch' = 0
    /\ coDone' = {}
    /\ all_texts' = <<>>
    /\ vectorstores' = <<>>
    /\ company_vectorstore' = NoIndex
    /\ coErr' = "none"
    /\ coEmbedCalls' = 0
    /\ coAttempts' = [i \in DOMAIN docs |-> 0]

\* as_completed yields the future of document i: the pool had started it,
\* so fewer than max_workers documents submitted before it are unfinished.
\* Its chunks are appended; after the batch's last future the next batch of
\* documents is submitted.
CompanyCollect(i) ==
    /\ coPc = "docs"
    /\ i \in BatchOf(coDocs, coBatch, coArgs.batch_size) \ coDone
    /\ Cardinality({j \in BatchOf(coDocs, coBatch, coArgs.batch_size) \ coDone : j < i}) < coArgs.max_workers
    /\ all_texts' = all_texts \o DocTexts(coDocs, i)
    /\ coAttempts' = [coAttempts EXCEPT ![i] = DocAttempts(coDocs[i], coArgs.max_retries)]
    /\ IF coDone \cup {i} = BatchOf(coDocs, coBatch, coArgs.batch_size)
       THEN /\ coBatch' = coBatch + coArgs.batch_size
            /\ coDone' = {}
       ELSE /\ coDone' = coDone \cup {i}
            /\ UNCHANGED coBatch
    /\ UNCHANGED <<coPc, coDocs, coArgs, vectorstores, company_vectorstore, coErr, coEmbedCalls>>

\* After the last batch of documents: ValueError when there is no chunk.
CompanyCheck ==
    /\ coPc = "docs"
    /\ coBatch >= Len(coDocs)
    /\ IF NoValidContent(all_texts)
       THEN coPc' = "failed" /\ coErr' = "no_content"
       ELSE coPc' = "checked" /\ coErr' = "none"
    /\ UNCHANGED <<coDocs, coArgs, coBatch, coDone, all_texts, vectorstores, company_vectorstore,
                   coEmbedCalls, coAttempts>>

Batched == coArgs.batch_vectorstore /\ Len(all_texts) > coArgs.batch_vectorstore_size

\* The batched branch: the next slice of all_texts is embedded into an
\* index of its own; an embedding that raises ends the call.
CompanyEmbedBatch(raises) ==
    /\ coPc \in {"checked", "embedding"}
    /\ Batched
    /\ coEmbedCalls' = coEmbedCalls + 1
    /\ LET slices == Batches(all_texts, coArgs.batch_vectorstore_size) IN
        IF raises
        THEN /\ coPc' = "failed"
             /\ coErr' = "embed_failed"
             /\ UNCHANGED vectorstores
        ELSE /\ vectorstores' = Append(vectorstores, FromTexts(slices[Len(vectorstores) + 1]))
             /\ coPc' = IF Len(vectorstores) + 1 = Len(slices) THEN "merging" ELSE "embedding"
             /\ UNCHANGED coErr
    /\ UNCHANGED <<coDocs, coArgs, coBatch, coDone, all_texts, company_vectorstore, coAttempts>>

\* The batched branch: the indices are merged into the first, in order.
CompanyMerge ==
    /\ coPc = "merging"
    /\ company_vectorstore' = MergeAll(Head(vectorstores), Tail(vectorstores))
    /\ coPc' = "built"
    /\ UNCHANGED <<coDocs, coArgs, coBatch, coDone, all_texts, vectorstores, coErr, coEmbedCalls,
                   coAttempts>>

\* The other branch: one FAISS.from_texts over all chunks.
CompanyOneShot(raises) ==
    /\ coPc = "checked"
    /\ ~Batched
    /\ coEmbedCalls' = coEmbedCalls + 1
    /\ IF raises
       THEN /\ coPc' = "failed"
            /\ coErr' = "embed_failed"
            /\ UNCHANGED company_vectorstore
       ELSE /\ company_vectorstore' = FromTexts(all_texts)
            /\ coPc' = "built"
            /\ UNCHANGED coErr
    /\ UNCHANGED <<coDocs, coArgs, coBatch, coDone, all_texts, vectorstores, coAttempts>>

CompanyInit ==
    /\ coPc = "idle"
    /\ coDocs = <<>>
    /\ coArgs = NoArgsYet
    /\ coBatch = 0
    /\ coDone = {}
    /\ all_texts = <<>>
    /\ vectorstores = <<>>
    /\ company_vectorstore = NoIndex
    /\ coErr = "none"
    /\ coEmbedCalls = 0
    /\ coAttempts = <<>>

\* The call returned or raised; its locals are gone.
CompanyEnd ==
    /\ coPc \in {"built", "failed"}
    /\ coPc' = "idle"
    /\ coDocs' = <<>>
    /\ coArgs' = NoArgsYet
    /\ coBatch' = 0
    /\ coDone' = {}
    /\ all_texts' = <<>>
    /\ vectorstores' = <<>>
    /\ company_vectorstore' = NoIndex
    /\ coErr' = "none"
    /\ coEmbedCalls' = 0
    /\ coAttempts' = <<>>

(***************************************************************************)
(* build_evidence_vectorstore: split in order, ValueError when there is no *)
(* chunk, else one FAISS.from_texts over all chunks.                       *)
(***************************************************************************)
EvidenceBuild(docs, raises) ==
    /\ evPc = "idle"
    /\ evDocs' = docs
    /\ LET texts == SplitDocs(docs) IN
        IF NoValidContent(texts)
        THEN /\ evPc' = "failed"
             /\ evErr' = "no_content"
             /\ evEmbedCalls' = 0
             /\ evidence_vectorstore' = NoIndex
        ELSE /\ evEmbedCalls' = 1
             /\ evPc' = IF raises THEN "failed" ELSE "built"
             /\ evErr' = IF raises THEN "embed_failed" ELSE "none"
             /\ evidence_vectorstore' = IF raises THEN NoIndex ELSE FromTexts(texts)

EvidenceInit ==
    /\ evPc = "idle"
    /\ evDocs = <<>>
    /\ evidence_vectorstore = NoIndex
    /\ evErr = "none"
    /\ evEmbedCalls = 0

EvidenceEnd ==
    /\ evPc \in {"built", "failed"}
    /\ evPc' = "idle"
    /\ evDocs' = <<>>
    /\ evidence_vectorstore' = NoIndex
    /\ evErr' = "none"
    /\ evEmbedCalls' = 0

(***************************************************************************)
(* save_faiss_vectorstore and load_faiss_vectorstore (utils/file_handlers) *)
(* behind /save-vectorstore and /load-vectorstore. A path on disk is       *)
(* absent, a directory load_local cannot read, or a directory holding a    *)
(* saved index. Other programs write to the disk as well.                  *)
(***************************************************************************)
\* What a persistence request leaves alone of the build_kb endpoint's state.
ingestLocals == <<ingPc, ingErr, all_documents, batch_size, max_retries, kb_type, batch_idx,
                  attempt, kb_vectorstore, embed_calls, failsOnBatch, kbResp,
                  delay_between_batches, backoffs>>

Paths == {"p1", "p2"}

NoEntry == [index |-> NoIndex, input |-> <<>>]

Absent == [state |-> "absent", entry |-> NoEntry]

Unreadable == [state |-> "corrupt", entry |-> NoEntry]

Saved(entry) == [state |-> "good", entry |-> entry]

\* The indices found on disk that this process did not save.
ForeignEntries ==
    {[index |-> x, input |-> x] : x \in {<<<<1, 1>>>>, <<<<1, 1>>, <<2, 1>>>>}}

\* load_faiss_vectorstore: FileNotFoundError for a missing directory; any
\* failure of FAISS.load_local is re-raised as a plain Exception.
LoadFaissUnwrapped(d) ==
    IF d.state = "good"
    THEN [raised |-> "none", vs |-> d.entry]
    ELSE [raised |-> "FileNotFoundError", vs |-> NoEntry]

LoadFaiss(d) ==
    IF d.state = "absent" THEN [raised |-> "FileNotFoundError", vs |-> NoEntry]
    ELSE IF d.state = "corrupt" THEN [raised |-> "Exception", vs |-> NoEntry]
    ELSE [raised |-> "none", vs |-> d.entry]

\* The except clauses of load_vectorstore_api.
LoadStatus(raised) ==
    IF raised = "none" THEN 200 ELSE IF raised = "FileNotFoundError" THEN 404 ELSE 500

\* POST /load-vectorstore: the cache entry is assigned after the load
\* returned.
LoadVectorstoreApi(path, kt) ==
    LET r == LoadFaiss(disk[path]) IN
    /\ cache' = IF r.raised = "none" THEN [cache EXCEPT ![kt] = r.vs] ELSE cache
    /\ lastLoad' = [seen |-> TRUE, kb_type |-> kt, found |-> disk[path].state,
                    status |-> LoadStatus(r.raised), before |-> cache[kt]]
    /\ UNCHANGED <<disk, ingestLocals>>

\* POST /save-vectorstore: 400 for the evidence index and for an empty
\* cache entry; else the directory is made and save_local writes into it,
\* and when save_local raises, what it leaves cannot be loaded.
SaveVectorstoreApi(path, kt, saveRaises) ==
    /\ disk' =
        IF kt = "evidence" \/ cache[kt].index = NoIndex THEN disk
        ELSE [disk EXCEPT ![path] = IF saveRaises THEN Unreadable ELSE Saved(cache[kt])]
    /\ UNCHANGED <<cache, lastLoad, ingestLocals>>

\* Another program writes, damages or removes a directory.
DiskWritten(path, d) ==
    /\ disk' = [disk EXCEPT ![path] = d]
    /\ UNCHANGED <<cache, lastLoad, ingestLocals>>

PersistInit ==
    /\ disk = [p \in Paths |-> Absent]
    /\ lastLoad = [seen |-> FALSE, kb_type |-> "global", found |-> "absent", status |-> 0,
                   before |-> NoEntry]

(***************************************************************************)
(* Requests on the event loop.  Every endpoint of api/main.py is an       *)
(* `async def` whose body calls the blocking utilities directly; the only  *)
(* awaits are the reads of the uploaded files at the head of /build-       *)
(* knowledge-base and /assess-evidence.                                    *)
(***************************************************************************)
Requests == {"r1", "r2"}

CacheNames == {"global", "company", "evidence"}

\* The indices more than one request can reach (the cache entries and the
\* sessions' conversation indices), and each request's index under
\* construction, named by the request.
IndexNames == CacheNames \cup Ids \cup Requests

PoolTasks == 1..MaxWorkers

Nobody == [ix \in IndexNames |-> {}]

NoPool == [t \in PoolTasks |-> "none"]

\* The handler itself on the event loop, as against its pool's workers.
Handler(r) == <<r, 0>>

Enter(f, ix, who) == [f EXCEPT ![ix] = @ \cup {who}]

Leave(f, ix, who) == [f EXCEPT ![ix] = @ \ {who}]

\* A handler runs on the event loop from its start or from the await it
\* resumed at to its next await or its return: it runs only while no other
\* handler is between two of its awaits.
EventLoopThreaded(pcs) == TRUE

EventLoopFree(pcs) == \A r \in DOMAIN pcs : pcs[r] \in {"idle", "reading"}

ReqGoto(r, pc) == reqPc' = [reqPc EXCEPT ![r] = pc]

\* chat_with_memory gets or creates the session and calls
\* chat_with_ai_with_memory.
ChatEnter(r, id) ==
    /\ reqPc[r] = "idle"
    /\ EventLoopFree(reqPc)
    /\ ReqGoto(r, "history")
    /\ reqSid' = [reqSid EXCEPT ![r] = id]
    /\ UNCHANGED <<searching, writing, convIndex, poolTask>>

\* conv_vectorstore.similarity_search(user_input, k=3) when the session has
\* a conversation index.
ChatSearchConversation(r) ==
    /\ reqPc[r] = "history"
    /\ IF convIndex[reqSid[r]] > 0
       THEN /\ searching' = Enter(searching, reqSid[r], Handler(r))
            /\ ReqGoto(r, "conversation")
       ELSE /\ ReqGoto(r, "contexts")
            /\ UNCHANGED searching
    /\ UNCHANGED <<reqSid, writing, convIndex, poolTask>>

\* safe_similarity_search on the cached evidence index.
ChatSearchEvidence(r) ==
    /\ reqPc[r] \in {"conversation", "contexts"}
    /\ searching' = Enter(Leave(searching, reqSid[r], Handler(r)), "evidence", Handler(r))
    /\ ReqGoto(r, "evidence")
    /\ UNCHANGED <<reqSid, writing, convIndex, poolTask>>

\* llm.invoke(enhanced_prompt); when it raises the handler answers
\* success=False.
ChatInvoke(r, raises) ==
    /\ reqPc[r] = "evidence"
    /\ searching' = Leave(searching, "evidence", Handler(r))
    /\ ReqGoto(r, IF raises THEN "idle" ELSE "update")
    /\ UNCHANGED <<reqSid, writing, convIndex, poolTask>>

\* update_conversation_vectorstore_api: a new index from the exchange when
\* the session has none, else add_documents on the session's index.
ChatAddBegin(r) ==
    /\ reqPc[r] = "update"
    /\ IF convIndex[reqSid[r]] = 0
       THEN /\ convIndex' = [convIndex EXCEPT ![reqSid[r]] = 1]
            /\ ReqGoto(r, "idle")
            /\ UNCHANGED writing
       ELSE /\ writing' = Enter(writing, reqSid[r], Handler(r))
            /\ ReqGoto(r, "adding")
            /\ UNCHANGED convIndex
    /\ UNCHANGED <<reqSid, searching, poolTask>>

ChatAddEnd(r) ==
    /\ reqPc[r] = "adding"
    /\ writing' = Leave(writing, reqSid[r], Handler(r))
    /\ convIndex' = [convIndex EXCEPT ![reqSid[r]] = IF @ < MaxExchanges THEN @ + 1 ELSE @]
    /\ ReqGoto(r, "idle")
    /\ UNCHANGED <<reqSid, searching, poolTask>>

\* build_kb and assess_evidence run to `await uf.read()`.
UploadEnter(r, kind) ==
    /\ reqPc[r] = "idle"
    /\ ReqGoto(r, "reading")
    /\ reqSid' = [reqSid EXCEPT ![r] = kind]
    /\ UNCHANGED <<searching, writing, convIndex, poolTask>>

\* After the uploads are read the handler calls build_knowledge_base, which
\* merges every batch into the index it is constructing.
UploadResume(r) ==
    /\ reqPc[r] = "reading"
    /\ EventLoopFree(reqPc)
    /\ writing' = Enter(writing, r, Handler(r))
    /\ ReqGoto(r, "merging")
    /\ UNCHANGED <<reqSid, searching, convIndex, poolTask>>

\* build_kb: VECTORSTORE_CACHE[kb_type] = vectorstore, and the response.
BuildKbPublish(r) ==
    /\ reqPc[r] = "merging"
    /\ reqSid[r] = "build"
    /\ writing' = Leave(writing, r, Handler(r))
    /\ ReqGoto(r, "idle")
    /\ UNCHANGED <<reqSid, searching, convIndex, poolTask>>

\* assess_evidence: VECTORSTORE_CACHE["evidence"] = evidence_vectorstore,
\* then assess_evidence_with_kb submits its tasks.
AssessPool(r) ==
    /\ reqPc[r] = "merging"
    /\ reqSid[r] = "assess"
    /\ writing' = Leave(writing, r, Handler(r))
    /\ poolTask' = [poolTask EXCEPT ![r] = [t \in PoolTasks |-> "queued"]]
    /\ ReqGoto(r, "pool")
    /\ UNCHANGED <<reqSid, searching, convIndex>>

\* _assess_single_evidence: kb_vectorstore.similarity_search, then
\* company_kb_vectorstore.similarity_search, then the generation call.
TaskSearchKb(r, t) ==
    /\ reqPc[r] = "pool"
    /\ poolTask[r][t] = "queued"
    /\ searching' = Enter(searching, "global", <<r, t>>)
    /\ poolTask' = [poolTask EXCEPT ![r][t] = "kb"]
    /\ UNCHANGED <<reqPc, reqSid, writing, convIndex>>

TaskSearchCompany(r, t) ==
    /\ reqPc[r] = "pool"
    /\ poolTask[r][t] = "kb"
    /\ searching' = Enter(Leave(searching, "global", <<r, t>>), "company", <<r, t>>)
    /\ poolTask' = [poolTask EXCEPT ![r][t] = "company"]
    /\ UNCHANGED <<reqPc, reqSid, writing, convIndex>>

TaskDone(r, t) ==
    /\ reqPc[r] = "pool"
    /\ poolTask[r][t] = "company"
    /\ searching' = Leave(searching, "company", <<r, t>>)
    /\ poolTask' = [poolTask EXCEPT ![r][t] = "done"]
    /\ UNCHANGED <<reqPc, reqSid, writing, convIndex>>

\* The with block ends when every task has finished; the handler responds.
AssessLeave(r) ==
    /\ reqPc[r] = "pool"
    /\ \A t \in PoolTasks : poolTask[r][t] = "done"
    /\ poolTask' = [poolTask EXCEPT ![r] = NoPool]
    /\ ReqGoto(r, "idle")
    /\ UNCHANGED <<reqSid, searching, writing, convIndex>>

ServeInit ==
    /\ reqPc = [r \in Requests |-> "idle"]
    /\ reqSid = [r \in Requests |-> "s1"]
    /\ searching = Nobody
    /\ writing = Nobody
    /\ convIndex = [id \in Ids |-> 0]
    /\ poolTask = [r \in Requests |-> NoPool]

(***************************************************************************)
(* A caller that wants a running call to stop.  Neither                   *)
(* build_knowledge_base nor assess_evidence_with_kb takes a cancellation   *)
(* argument or reads any flag while it runs: the signal changes nothing    *)
(* the call reads.                                                         *)
(***************************************************************************)
NoCancel == [seen |-> FALSE, batch |-> 0, running |-> {}]

\* The caller signals cancellation while a call is between its first batch
\* or task and its end.
SignalCancel ==
    /\ ~cancel.seen
    /\ ingPc = "batching" \/ runPc = "pool"
    /\ cancel' = [seen |-> TRUE, batch |-> batch_idx, running |-> Running]

CancelInit == cancel = NoCancel

Init ==
    /\ AssessInit /\ IngestInit /\ StoreInit /\ MemoryInit /\ ConcInit /\ ChatInit
    /\ CompanyInit /\ EvidenceInit /\ PersistInit /\ ServeInit /\ CancelInit

notAssess == <<ingestVars, storeVars, memoryVars, concVars, chatVars, buildVars, persistVars, serveVars,
               cancelVars>>

notIngest == <<assessVars, storeVars, memoryVars, concVars, chatVars, buildVars, persistVars, serveVars,
               cancelVars>>

notSessions == <<assessVars, ingestVars, concVars, chatVars, buildVars, persistVars, serveVars,
               cancelVars>>

notConc == <<assessVars, ingestVars, memoryVars, chatVars, buildVars, persistVars, serveVars,
               cancelVars>>

notChat == <<assessVars, ingestVars, storeVars, concVars, buildVars, persistVars, serveVars,
               cancelVars>>

notBuild == <<assessVars, ingestVars, storeVars, memoryVars, concVars, chatVars, persistVars, serveVars,
               cancelVars>>

notPersist == <<assessVars, storeVars, memoryVars, concVars, chatVars, buildVars, serveVars,
               cancelVars>>

notServe == <<assessVars, ingestVars, storeVars, memoryVars, concVars, chatVars, buildVars,
              persistVars, cancelVars>>

notCancel == <<storeVars, memoryVars, concVars, chatVars, buildVars, persistVars, serveVars>>

NextAssess ==
    \/ \E docs \in DocLists, w \in 1..MaxWorkers : AssessStart(docs, w) /\ UNCHANGED notAssess
    \/ \E i \in Tasks : WorkerStart(i) /\ UNCHANGED notAssess
    \/ \E i \in Tasks, fate \in Fates : WorkerFinish(i, fate) /\ UNCHANGED notAssess
    \/ \E i \in Tasks : Collect(i) /\ UNCHANGED notAssess
    \/ AssessReturn /\ UNCHANGED notAssess

SpecAssess == Init /\ [][NextAssess]_vars

NextIngest ==
    \/ /\ ingPc = "idle"
       /\ \E docs \in DocLists, bs \in 1..MaxBatch, mr \in 1..MaxRetries, kt \in KbTypes,
             delay \in Delays :
            BuildKbStart(docs, bs, mr, kt, delay) /\ UNCHANGED notIngest
    \/ EmbedOk /\ UNCHANGED notIngest
    \/ EmbedFail /\ UNCHANGED notIngest
    \/ BuildKbRespond /\ UNCHANGED notIngest
    \/ BuildKbFinally /\ UNCHANGED notIngest

SpecIngest == Init /\ [][NextIngest]_vars

\* build_knowledge_base called directly, one call after the other.
NextIngestCall ==
    \/ /\ ingPc = "idle"
       /\ \E docs \in DocLists, bs \in 1..MaxBatch, mr \in 1..MaxRetries, kt \in KbTypes,
             delay \in Delays :
            BuildKbStart(docs, bs, mr, kt, delay) /\ UNCHANGED notIngest
    \/ EmbedOk /\ UNCHANGED notIngest
    \/ EmbedFail /\ UNCHANGED notIngest
    \/ BuildKbReturn /\ UNCHANGED notIngest

\* Every embedding call returns or raises.
SpecIngestFair ==
    /\ Init
    /\ [][NextIngestCall]_vars
    /\ WF_vars((EmbedOk \/ EmbedFail) /\ UNCHANGED notIngest)

\* The validation results and test scripts the lifecycle runs use.
StoreResults ==
    {[validation_status |-> "accepted", rejection_reason |-> "None", satisfies_controls |-> {"c1"}]}

\* The two stores share nothing but the clock: a run works on one of them
\* while the other is empty. SessionMemory never reads the clock back (it has
\* no expiry), and its handlers run within one reading of it here.
AuditTurn == memSessions = EmptyDict

MemoryTurn == sessions = EmptyDict /\ dirs = {}

NextStore ==
    \/ \E id \in Ids : AuditTurn /\ CreateSession(id) /\ UNCHANGED <<notSessions, memoryVars>>
    \/ \E id \in Ids : AuditTurn /\ GetSession(id) /\ UNCHANGED <<notSessions, memoryVars>>
    \/ \E id \in Ids, vr \in StoreResults :
            AuditTurn /\ AddUploadedFile(id, "f1", vr) /\ UNCHANGED <<notSessions, memoryVars>>
    \/ \E id \in Ids, raises \in BOOLEAN :
            AuditTurn /\ ClearSession(id, raises) /\ UNCHANGED <<notSessions, memoryVars>>
    \/ \E stuck \in SUBSET Ids :
            AuditTurn /\ CleanupExpiredSessions(stuck) /\ UNCHANGED <<notSessions, memoryVars>>
    \/ \E id \in Ids : MemoryTurn /\ MemCreateSession(id) /\ UNCHANGED notSessions
    \/ \E id \in Ids : MemoryTurn /\ MemGetSession(id) /\ UNCHANGED notSessions
    \/ \E id \in Ids, role \in Roles : MemoryTurn /\ MemAddMessage(id, role) /\ UNCHANGED notSessions
    \/ \E id \in Ids : MemoryTurn /\ MemClearSession(id) /\ UNCHANGED notSessions
    \/ \E id \in Ids : MemoryTurn /\ MemUpdateVectorstore(id, <<"faiss">>) /\ UNCHANGED notSessions
    \/ AuditTurn /\ Tick /\ UNCHANGED <<notSessions, memoryVars>>

SpecStore == Init /\ [][NextStore]_vars

ghostVars == <<now, storeErr, lastOp, swept, spared>>

\* The life of one audit session: a test script of one or two controls,
\* uploads that the validator accepted or rejected for one of them, and the
\* end of the analysis.
AuditId == "s1"

AuditScripts == {<<"c1">>, <<"c1", "c2">>}

AuditResults ==
    {[validation_status |-> v, rejection_reason |-> IF v = "accepted" THEN "None" ELSE "unreadable",
      satisfies_controls |-> {c}] : v \in {"accepted", "rejected"}, c \in {"c1", "c2"}}

NextAudit ==
    \/ CreateSession(AuditId) /\ UNCHANGED <<notSessions, memoryVars>>
    \/ \E controls \in AuditScripts :
            SetTestScript(AuditId, "script", controls) /\ UNCHANGED <<notSessions, memoryVars>>
    \/ \E vr \in AuditResults :
            AddUploadedFile(AuditId, "f1", vr) /\ UNCHANGED <<notSessions, memoryVars>>
    \/ MarkAnalysisComplete(AuditId) /\ UNCHANGED <<notSessions, memoryVars>>
    \/ \E raises \in BOOLEAN : ClearSession(AuditId, raises) /\ UNCHANGED <<notSessions, memoryVars>>

SpecAudit == Init /\ [][NextAudit]_vars

\* Before the threads start, one caller sets the session up; then each
\* thread runs one handler.
NextConc ==
    \/ ~started /\ CreateSession(ConcId) /\ UNCHANGED <<notConc, concVars>>
    \/ ~started /\ SetTestScript(ConcId, "script", <<"c1", "c2">>) /\ UNCHANGED <<notConc, concVars>>
    \/ \E t \in Threads, op \in ConcOps : Begin(t, op) /\ UNCHANGED <<notConc, ghostVars>>
    \/ \E t \in Threads : GetOrRaise(t) /\ UNCHANGED <<notConc, ghostVars>>
    \/ \E t \in Threads : AddFiles(t) /\ UNCHANGED <<notConc, ghostVars>>
    \/ \E t \in Threads : AddManifestRef(t) /\ UNCHANGED <<notConc, ghostVars>>
    \/ \E t \in Threads : AddMark(t) /\ UNCHANGED <<notConc, ghostVars>>
    \/ \E t \in Threads : AddCount(t) /\ UNCHANGED <<notConc, ghostVars>>
    \/ \E t \in Threads : AddUpdate(t) /\ UNCHANGED <<notConc, ghostVars>>
    \/ \E t \in Threads : SetUpdate(t) /\ UNCHANGED <<notConc, ghostVars>>
    \/ \E t \in Threads : Touch(t) /\ UNCHANGED <<notConc, ghostVars>>
    \/ \E t \in Threads : ClearGet(t) /\ UNCHANGED <<notConc, ghostVars>>
    \/ \E t \in Threads, raises \in BOOLEAN : ClearRmtree(t, raises) /\ UNCHANGED <<notConc, ghostVars>>
    \/ \E t \in Threads : ClearDel(t) /\ UNCHANGED <<notConc, ghostVars>>
    \/ \E t \in Threads : GetSessionTempDir(t) /\ UNCHANGED <<notConc, ghostVars>>

SpecConc == Init /\ [][NextConc]_vars

NextChat ==
    \/ \E id \in Ids, q \in Questions, r \in Responses, llmRaises \in BOOLEAN :
            ChatWithMemory(id, q, r, llmRaises) /\ UNCHANGED notChat
    \/ \E id \in Ids : ChatClearSession(id) /\ UNCHANGED notChat
    \/ \E e \in EvidenceSets, raises \in BOOLEAN : AssessEvidenceCached(e, raises) /\ UNCHANGED notChat

SpecChat == Init /\ [][NextChat]_vars

\* One builder runs at a time.
AllIdle == ingPc = "idle" /\ coPc = "idle" /\ evPc = "idle"

NextBuild ==
    \/ /\ AllIdle
       /\ \E docs \in DocLists, bs \in 1..MaxBatch, mr \in 1..MaxRetries, kt \in KbTypes,
             delay \in Delays :
            BuildKbStart(docs, bs, mr, kt, delay) /\ UNCHANGED notIngest
    \/ EmbedOk /\ UNCHANGED notIngest
    \/ EmbedFail /\ UNCHANGED notIngest
    \/ BuildKbReturn /\ UNCHANGED notIngest
    \/ /\ AllIdle
       /\ \E docs \in DocLists, args \in CompanyArgs :
            CompanyStart(docs, args) /\ UNCHANGED <<notBuild, evidenceVars>>
    \/ \E i \in 1..MaxDocs : CompanyCollect(i) /\ UNCHANGED <<notBuild, evidenceVars>>
    \/ CompanyCheck /\ UNCHANGED <<notBuild, evidenceVars>>
    \/ \E raises \in BOOLEAN : CompanyEmbedBatch(raises) /\ UNCHANGED <<notBuild, evidenceVars>>
    \/ CompanyMerge /\ UNCHANGED <<notBuild, evidenceVars>>
    \/ \E raises \in BOOLEAN : CompanyOneShot(raises) /\ UNCHANGED <<notBuild, evidenceVars>>
    \/ CompanyEnd /\ UNCHANGED <<notBuild, evidenceVars>>
    \/ /\ AllIdle
       /\ \E docs \in DocLists, raises \in BOOLEAN :
            EvidenceBuild(docs, raises) /\ UNCHANGED <<notBuild, companyVars>>
    \/ EvidenceEnd /\ UNCHANGED <<notBuild, companyVars>>

SpecBuild == Init /\ [][NextBuild]_vars

NextPersist ==
    \/ \E path \in Paths, kt \in KbTypes : LoadVectorstoreApi(path, kt) /\ UNCHANGED notPersist
    \/ \E path \in Paths, kt \in KbTypes \cup {"evidence"}, saveRaises \in BOOLEAN :
            SaveVectorstoreApi(path, kt, saveRaises) /\ UNCHANGED notPersist
    \/ \E path \in Paths, d \in {Absent, Unreadable} \cup {Saved(e) : e \in ForeignEntries} :
            DiskWritten(path, d) /\ UNCHANGED notPersist

SpecPersist == Init /\ [][NextPersist]_vars

NextServe ==
    \/ \E r \in Requests, id \in Ids : ChatEnter(r, id) /\ UNCHANGED notServe
    \/ \E r \in Requests : ChatSearchConversation(r) /\ UNCHANGED notServe
    \/ \E r \in Requests : ChatSearchEvidence(r) /\ UNCHANGED notServe
    \/ \E r \in Requests, raises \in BOOLEAN : ChatInvoke(r, raises) /\ UNCHANGED notServe
    \/ \E r \in Requests : ChatAddBegin(r) /\ UNCHANGED notServe
    \/ \E r \in Requests : ChatAddEnd(r) /\ UNCHANGED notServe
    \/ \E r \in Requests, kind \in {"build", "assess"} : UploadEnter(r, kind) /\ UNCHANGED notServe
    \/ \E r \in Requests : UploadResume(r) /\ UNCHANGED notServe
    \/ \E r \in Requests : BuildKbPublish(r) /\ UNCHANGED notServe
    \/ \E r \in Requests : AssessPool(r) /\ UNCHANGED notServe
    \/ \E r \in Requests, t \in PoolTasks : TaskSearchKb(r, t) /\ UNCHANGED notServe
    \/ \E r \in Requests, t \in PoolTasks : TaskSearchCompany(r, t) /\ UNCHANGED notServe
    \/ \E r \in Requests, t \in PoolTasks : TaskDone(r, t) /\ UNCHANGED notServe
    \/ \E r \in Requests : AssessLeave(r) /\ UNCHANGED notServe

SpecServe == Init /\ [][NextServe]_vars

\* One call at a time, and none is started after the signal.
NoCallYet == ingPc = "idle" /\ runPc = "idle" /\ ~cancel.seen

NextCancel ==
    \/ /\ NoCallYet
       /\ \E docs \in DocLists, bs \in 1..MaxBatch, mr \in 1..MaxRetries, kt \in KbTypes,
             delay \in Delays :
            BuildKbStart(docs, bs, mr, kt, delay) /\ UNCHANGED notIngest
    \/ EmbedOk /\ UNCHANGED notIngest
    \/ EmbedFail /\ UNCHANGED notIngest
    \/ BuildKbReturn /\ UNCHANGED notIngest
    \/ /\ NoCallYet
       /\ \E docs \in DocLists, w \in 1..MaxWorkers : AssessStart(docs, w) /\ UNCHANGED notAssess
    \/ \E i \in Tasks : WorkerStart(i) /\ UNCHANGED notAssess
    \/ \E i \in Tasks, fate \in Fates : WorkerFinish(i, fate) /\ UNCHANGED notAssess
    \/ \E i \in Tasks : Collect(i) /\ UNCHANGED notAssess
    \/ AssessReturn /\ UNCHANGED notAssess
    \/ SignalCancel /\ UNCHANGED <<assessVars, ingestVars, notCancel>>

SpecCancel == Init /\ [][NextCancel]_vars

(***************************************************************************)
(* Claims about assess_evidence_with_kb                                    *)
(***************************************************************************)
FailedTasks == {i \in Tasks : taskState[i] = "done" /\ taskFate[i] # "ok"}

\* C1: whenever assess_evidence_with_kb has returned, the list it returns
\* holds exactly one record per chunk submitted to the pool, for every
\* max_workers >= 1 and every choice of the tasks that fail.
RunAllOneRecordPerTask == runPc = "returned" => Len(results) = Len(evid_texts)

\* C1 witness: a call with two workers returned after three tasks of which
\* one failed in retrieval and one in generation.
RunAllMixedReturned ==
    /\ runPc = "returned"
    /\ max_workers = 2
    /\ Len(evid_texts) = 3
    /\ \E i, j \in Tasks : taskFate[i] = "base_search_error" /\ taskFate[j] = "llm_error"
    /\ Len(results) = 3

\* C2: a task that fails ends as a future holding an error record, never an
\* exception; the call never leaves by an exception, and when it returns
\* every task has run to its end and results holds one error record per failed
\* task beside one answer per task that succeeded.
FailuresRecoveredLocally ==
    /\ runPc # "raised"
    /\ \A i \in FailedTasks : futures[i] = [kind |-> "value", assessment |-> "Error"]
    /\ runPc = "returned" =>
        /\ \A i \in Tasks : taskState[i] = "done"
        /\ CountIn(results, [assessment |-> "Error"]) = Cardinality(FailedTasks)
        /\ CountIn(results, [assessment |-> "answer"]) = Cardinality(Tasks \ FailedTasks)

\* C2 witness: the first task failed against the company index while a
\* sibling was still queued, and the call went on to return with the
\* sibling's answer.
SiblingSurvivedFailure ==
    /\ runPc = "returned"
    /\ max_workers = 1
    /\ Len(evid_texts) = 2
    /\ taskFate[1] = "company_search_error"
    /\ taskFate[2] = "ok"
    /\ results = <<[assessment |-> "Error"], [assessment |-> "answer"]>>

(***************************************************************************)
(* Claims about build_knowledge_base                                       *)
(***************************************************************************)
Covers(index, docs) == Range(docs) \subseteq Range(index)

\* build_knowledge_base on docs with an embedding that never fails.
RECURSIVE BuildFrom(_, _, _, _)
BuildFrom(docs, bs, idx, kb) ==
    IF idx >= Len(docs) THEN kb
    ELSE BuildFrom(docs, bs, idx + bs, AttemptBody(kb, BatchDocs(docs, idx, bs)))

AlwaysSucceedIndex(docs, bs) == BuildFrom(docs, bs, 0, NoIndex)

\* C3: ingestion is all-or-nothing. A call that raised (no content, or a
\* batch out of attempts) is answered as a failure; the index a call returns
\* covers every chunk of its input; and every index the cache holds covers
\* every chunk of the input of the call that cached it.
IngestAllOrNothing ==
    /\ ingPc = "built" => Covers(kb_vectorstore, all_documents)
    /\ \A kt \in KbTypes : cache[kt].index # NoIndex => Covers(cache[kt].index, cache[kt].input)
    /\ kbResp = "success" => ingErr = "none" /\ cache[kb_type] = [index |-> kb_vectorstore, input |-> all_documents]
    /\ kbResp = "failed" => ingErr # "none"
    /\ ingErr # "none" => kbResp # "success"

\* C3 witness: a call failed on its second batch, holding a half-built
\* index, was answered as a failure, and the cache still holds the full index
\* of an earlier call.
HalfBuiltNotCached ==
    /\ kbResp = "failed"
    /\ ingErr = "batch_failed"
    /\ kb_vectorstore # NoIndex
    /\ ~Covers(kb_vectorstore, all_documents)
    /\ cache[kb_type].index # NoIndex
    /\ cache[kb_type].input # all_documents

\* C4 as claimed: ingestion ends in failure only when the embedding failed
\* more than max_retries times on one batch, so an embedding that fails its
\* first max_retries calls on a batch and then succeeds ends in success.
RetryTransparencyAsClaimed ==
    ingPc = "failed" /\ ingErr = "batch_failed" => failsOnBatch > max_retries

\* C4 amended: ingestion ends in failure only when the embedding failed
\* max_retries times on one batch, so an embedding that fails fewer than
\* max_retries calls on a batch and then succeeds ends in success; and the
\* index of a call that succeeds after retries is the index of the same call
\* with an embedding that never fails, record for record.
RetryTransparency ==
    /\ ingPc = "failed" /\ ingErr = "batch_failed" => failsOnBatch >= max_retries
    /\ ingPc = "built" => kb_vectorstore = AlwaysSucceedIndex(all_documents, batch_size)

\* C4 witness: a call of two batches succeeded although the embedding failed
\* max_retries - 1 times on the second batch, and one more call was made
\* than there are batches.
BuiltAfterRetry ==
    /\ ingPc = "built"
    /\ max_retries = 2
    /\ failsOnBatch = max_retries - 1
    /\ batch_idx > 0
    /\ embed_calls > 2
    /\ Len(kb_vectorstore) = 3

(***************************************************************************)
(* Claims about the session stores                                         *)
(***************************************************************************)

\* C5 as claimed: the sweep removes a session exactly when
\* now - last_activity > TTL: every session the last sweep removed had been
\* idle for more than the TTL, and every session it left had not.
ExpiryByLastActivity ==
    /\ \A r \in swept : now - r.last_activity > AUDIT_SESSION_TTL_HOURS
    /\ \A k \in spared : now - k.last_activity <= AUDIT_SESSION_TTL_HOURS

\* C5 amended: the sweep removes a session exactly when
\* now - created_at > TTL: every session the last sweep removed was created
\* more than the TTL ago and is gone, and every session it left was not and
\* is still there, whatever their last_activity.
ExpiryByCreation ==
    /\ \A r \in swept : now - r.created_at > AUDIT_SESSION_TTL_HOURS /\ r.id \notin Present
    /\ \A k \in spared :
        /\ now - k.created_at <= AUDIT_SESSION_TTL_HOURS
        /\ k.id \in Present
        /\ sessions[k.id].created_at = k.created_at

\* C5 witness: the sweep removed a session created more than the TTL ago
\* that had been touched TTL - 1 hours before the sweep, and left another.
SweptThoughTouched ==
    /\ \E r \in swept : now - r.last_activity = AUDIT_SESSION_TTL_HOURS - 1 /\ now - r.created_at = AUDIT_SESSION_TTL_HOURS + 1
    /\ spared # {}

\* C6: create_session with an id that is in the store leaves that session
\* as it was, in AuditSessionStore as in SessionMemory.
CreateSessionIdempotent ==
    [][/\ (lastOp'.op = "create_session" /\ lastOp'.found)
            => sessions'[lastOp'.id] = sessions[lastOp'.id]
       /\ (lastOp'.op = "memory.create_session" /\ lastOp'.found)
            => memSessions'[lastOp'.id] = memSessions[lastOp'.id]]_vars

\* C7: clear_session raises nothing and removes the id and nothing else from
\* the store; on an id that is not in the store it changes neither the
\* sessions nor the directories, so a second clear changes nothing.
ClearIdempotentTotal ==
    [][/\ lastOp'.op = "clear_session" =>
            /\ storeErr' = "none"
            /\ sessions' = Without(sessions, {lastOp'.id})
            /\ ~lastOp'.found => UNCHANGED <<sessions, dirs, memSessions, now>>
       /\ lastOp'.op = "memory.clear_session" =>
            /\ storeErr' = "none"
            /\ memSessions' = Without(memSessions, {lastOp'.id})
            /\ ~lastOp'.found => UNCHANGED <<sessions, dirs, memSessions, now>>]_vars

\* C7 witness: clear_session was called on an id that is not in the store
\* while another session, with an uploaded file, is.
ClearedUnknownId ==
    /\ lastOp.op = "clear_session"
    /\ ~lastOp.found
    /\ \E id \in Present : id # lastOp.id /\ sessions[id].uploaded_files # EmptyDict

\* C8: every scratch directory on disk belongs to a session that is in the
\* store, also when rmtree raised.
ScratchDirsOwned == dirs \subseteq Present


\* What a handler leaves when it runs alone on the store ss.
SerialApply(ss, op) ==
    IF ConcId \notin DOMAIN ss THEN ss
    ELSE IF op.name = "add_uploaded_file"
    THEN With(ss, ConcId, AddUploadedFileFn(ss[ConcId], op.filename, op.vr, now))
    ELSE With(ss, ConcId, SetTestScriptFn(ss[ConcId], op.filename, op.controls, now))

Writers == {"add_uploaded_file", "set_test_script"}

\* C9 (as stated): two concurrent add_uploaded_file / set_test_script calls
\* on one session id end, whatever the interleaving, in the store that
\* running the two calls one after the other in some order leaves.
ConcurrentOpsSerialized ==
    (/\ \A t \in Threads : tpc[t] = "done" /\ top[t].name \in Writers)
        => sessions \in {SerialApply(SerialApply(snap, top[1]), top[2]),
                         SerialApply(SerialApply(snap, top[2]), top[1])}

\* C10 (as stated): no caller sees a session that get_session still returns
\* while its scratch directory is already deleted.
RemovalAtomicForCallers ==
    \A t \in Threads : obs[t].seen /\ obs[t].session => obs[t].temp_dir

\* The handlers the model runs on a session that read or write it.
AccessOps ==
    {"get_session", "add_uploaded_file",
     "memory.get_session", "memory.add_message", "memory.update_vectorstore"}

\* C11 (as stated): after a read or write of an existing session, the
\* session's last_activity is not earlier than the time of that access.
AccessTouches ==
    (lastOp.op \in AccessOps /\ lastOp.found) =>
        /\ lastOp.id \in Present => sessions[lastOp.id].last_activity >= now
        /\ lastOp.id \in DOMAIN memSessions => memSessions[lastOp.id].last_activity >= now

\* C12 (as stated): what a chat request reads (history, conversation index,
\* evidence context) depends only on the requests made under its own session
\* id: two sessions with the same requests behind them read the same.
SessionMemoryIsolated ==
    \A a, b \in Ids :
        (chatRead[a].seen /\ chatRead[b].seen /\ chatRead[a].before = chatRead[b].before)
            => /\ chatRead[a].history = chatRead[b].history
               /\ chatRead[a].conversation = chatRead[b].conversation
               /\ chatRead[a].evidence = chatRead[b].evidence

(***************************************************************************)
(* Claims about the index builders                                         *)
(***************************************************************************)

\* C13: when the documents yield no valid chunk, each builder
\* (build_knowledge_base, build_company_knowledge_base,
\* build_evidence_vectorstore) ends in the "no content" error, with no
\* embedding call made and no index returned.
NoContentIsAnError ==
    /\ (ingPc # "idle" /\ all_documents = <<>>) =>
            /\ ingPc = "failed"
            /\ ingErr = "no_content"
            /\ embed_calls = 0
            /\ kb_vectorstore = NoIndex
            /\ kbResp # "success"
    /\ (coPc \notin {"idle", "docs"} /\ SplitDocs(coDocs) = <<>>) =>
            /\ coPc = "failed"
            /\ coErr = "no_content"
            /\ coEmbedCalls = 0
            /\ company_vectorstore = NoIndex
    /\ (evPc # "idle" /\ SplitDocs(evDocs) = <<>>) =>
            /\ evPc = "failed"
            /\ evErr = "no_content"
            /\ evEmbedCalls = 0
            /\ evidence_vectorstore = NoIndex

\* C13 witness: build_company_knowledge_base was given two documents, one
\* empty and one whose splitting raises, and ended in the "no content" error.
CompanyNoContentRaised ==
    /\ coPc = "failed"
    /\ coErr = "no_content"
    /\ Len(coDocs) = 2
    /\ coDocs[1] # coDocs[2]
    /\ coBatch >= 2

\* C14 (as stated): in one ingestion call a batch is not embedded before the
\* batch before it has been merged (at most the first index and one more
\* are held unmerged), and the records of the final index are the chunks of
\* the input in their order.
IngestInSubmissionOrder ==
    /\ ingPc = "built" => kb_vectorstore = all_documents
    /\ Len(vectorstores) <= 2
    /\ coPc = "built" => company_vectorstore = SplitDocs(coDocs)

\* C15 as claimed: a batch whose embedding keeps failing is retried
\* max_retries times before the call gives up, the wait after failed attempt
\* a being delay_between_batches * 2^a.
BackoffAfterMaxRetriesRetries ==
    /\ \A a \in 1..Len(backoffs) : backoffs[a] = delay_between_batches * (2 ^ (a - 1))
    /\ ingErr = "batch_failed" => failsOnBatch - 1 = max_retries

\* C15: a batch is attempted at most max_retries times, that is retried at
\* most max_retries - 1 times; the wait after failed attempt a (from 0) is
\* delay_between_batches * 2^a, there is one wait per failed attempt that a
\* retry follows, and none after the last failed attempt.
BackoffDoubles ==
    /\ \A a \in 1..Len(backoffs) : backoffs[a] = delay_between_batches * (2 ^ (a - 1))
    /\ failsOnBatch <= max_retries
    /\ ingErr = "batch_failed" =>
            /\ failsOnBatch = max_retries
            /\ Len(backoffs) = max_retries - 1
    /\ ingPc = "batching" => Len(backoffs) = failsOnBatch

\* C15 witness: the third attempt on a batch failed too and the call gave
\* up, having waited the delay and then twice the delay, and not after the
\* last failure.
GaveUpAfterTwoBackoffs ==
    /\ ingErr = "batch_failed"
    /\ max_retries = 3
    /\ delay_between_batches = 3
    /\ backoffs = <<3, 6>>

(***************************************************************************)
(* Further claims about the assessment fan-out                             *)
(***************************************************************************)

\* How many records of res carry a reference to chunk c.
CarriedRefs(res, c) ==
    Cardinality({k \in DOMAIN res : "chunk_ref" \in DOMAIN res[k] /\ res[k].chunk_ref = c})

\* C16 (as stated): the chunk references carried by the returned records are,
\* as a multiset, the submitted chunks, whatever the completion order and
\* however many tasks failed.
RecordsCarryChunkRefs ==
    runPc = "returned" =>
        \A c \in Range(evid_texts) : CarriedRefs(results, c) = CountIn(evid_texts, c)

(***************************************************************************)
(* Claims about saved indices                                              *)
(***************************************************************************)

\* C17: loading fails with FileNotFoundError (404) exactly when the
\* directory is absent and with another error (500) exactly when it is there
\* but cannot be loaded, and in both cases the cache entry stays what it was.
LoadErrorsDistinguished ==
    lastLoad.seen =>
        /\ lastLoad.status = 404 <=> lastLoad.found = "absent"
        /\ lastLoad.status = 500 <=> lastLoad.found = "corrupt"
        /\ lastLoad.status # 200 => cache[lastLoad.kb_type] = lastLoad.before

\* C17 witness: an index was in the cache when a load from a directory that
\* is there but unreadable answered 500.
CorruptLoadKeptCache ==
    /\ lastLoad.seen
    /\ lastLoad.found = "corrupt"
    /\ lastLoad.status = 500
    /\ lastLoad.before.index # NoIndex
    /\ cache[lastLoad.kb_type] = lastLoad.before

\* Two indices answer every query alike, for every k.
SameSearch(a, b) ==
    \A q \in Queries, k \in 1..(Len(a) + Len(b)) : SimilaritySearch(a, q, k) = SimilaritySearch(b, q, k)

\* C19: the index a builder has merged from per-batch indices answers every
\* query, for every k, as the index built in one call from the same records
\* in the same order does.
MergedSearchesLikeOneShot ==
    /\ coPc = "built" => SameSearch(company_vectorstore, FromTexts(all_texts))
    /\ ingPc = "built" => SameSearch(kb_vectorstore, FromDocuments(all_documents))

\* C19 witness: build_company_knowledge_base merged three one-record
\* indices, two of whose records are equally near to a query.
MergedThreeBatches ==
    /\ coPc = "built"
    /\ Len(vectorstores) = 3
    /\ Len(company_vectorstore) = 3
    /\ \E q \in Queries, i, j \in DOMAIN company_vectorstore :
            i < j /\ Distance(q, company_vectorstore[i]) = Distance(q, company_vectorstore[j])

\* C20: at every moment of the assessment fan-out at most max_workers tasks
\* are running, however many tasks were submitted.
BoundedConcurrency == Cardinality(Running) <= max_workers

\* C20 witness: every worker of the pool is busy and a submitted task waits.
PoolSaturated ==
    /\ runPc = "pool"
    /\ Cardinality(Running) = max_workers
    /\ max_workers = MaxWorkers
    /\ Queued # {}

\* C21: submission applies back-pressure: the tasks submitted to the pool and
\* not yet started stay within a queue bound that does not grow with the
\* submission, so the largest submission is never queued as a whole.
SubmissionBackPressure == Cardinality(Queued) < MaxChunks

\* C22: a write to an index (add_documents, merge_from) never overlaps a
\* search on that index nor another write to it.
WritesExclusive ==
    \A ix \in IndexNames :
        writing[ix] # {} => Cardinality(writing[ix]) = 1 /\ searching[ix] = {}

\* C22 witness: add_documents runs on a session's conversation index that
\* holds earlier exchanges, while the other request waits at its await.
AddingWhileOtherAwaits ==
    \E r \in Requests, o \in Requests :
        /\ reqPc[r] = "adding"
        /\ writing[reqSid[r]] = {Handler(r)}
        /\ reqPc[o] = "reading"

\* Two workers of one pool search the global index at once.
ConcurrentSearches == Cardinality(searching["global"]) >= 2

\* C23: once cancellation is signalled, the batch or the tasks in flight may
\* finish, no further batch is embedded and no further task is started, and
\* the call does not end in success.
CancellationHonoured ==
    cancel.seen =>
        /\ ingPc = "batching" => batch_idx = cancel.batch
        /\ Running \subseteq cancel.running
        /\ ingPc # "built"
        /\ runPc # "returned"

\* C24: a step of cleanup_expired_sessions removes from the store exactly
\* the sessions with now - created_at > TTL and leaves every other session
\* as it was, whatever their last_activity.
SweepRemovesByAge ==
    [][lastOp'.op = "cleanup_expired_sessions" =>
        \A id \in DOMAIN sessions :
            /\ id \in DOMAIN sessions' <=> ~(now - sessions[id].created_at > AUDIT_SESSION_TTL_HOURS)
            /\ id \in DOMAIN sessions' => sessions'[id] = sessions[id]]_vars

\* C24 witness: the sweep removed a session that was touched within the TTL
\* and left a session whose age is exactly the TTL.
SweptRecentSparedAtTTL ==
    /\ lastOp.op = "cleanup_expired_sessions"
    /\ \E r \in swept : now - r.last_activity <= AUDIT_SESSION_TTL_HOURS
    /\ \E k \in spared : now - k.created_at = AUDIT_SESSION_TTL_HOURS /\ k.id \in DOMAIN sessions

\* The chunks of document i among the chunks collected.
ChunksFrom(texts, i) == Cardinality({k \in DOMAIN texts : texts[k][1] = i})

\* C25 as claimed: a document that is empty or whose splitting raises is
\* never retried: one attempt is made on it.
MalformedNeverRetried ==
    \A i \in DOMAIN coAttempts : coDocs[i] <= 0 => coAttempts[i] <= 1

\* C25 amended: once build_company_knowledge_base has been through its
\* documents, an empty document was attempted once and one whose splitting
\* raises max_retries + 1 times, either contributed no chunk, every other
\* document contributed all of its chunks, and the call raised for missing
\* content only when no document had any.
MalformedSkippedAlone ==
    coPc \notin {"idle", "docs"} =>
        /\ \A i \in DOMAIN coDocs :
            /\ coDocs[i] = 0 => coAttempts[i] = 1
            /\ coDocs[i] = -1 => coAttempts[i] = coArgs.max_retries + 1
            /\ ChunksFrom(all_texts, i) = (IF coDocs[i] <= 0 THEN 0 ELSE coDocs[i])
        /\ coErr = "no_content" <=> (\A i \in DOMAIN coDocs : coDocs[i] <= 0)

\* C25 witness: the index was built although one document's splitting had
\* raised on each of its three attempts.
BuiltAroundFailingDocument ==
    /\ coPc = "built"
    /\ \E i, j \in DOMAIN coDocs :
        /\ coDocs[i] = -1 /\ coAttempts[i] = 3
        /\ coDocs[j] > 0 /\ ChunksFrom(company_vectorstore, j) = coDocs[j]

\* C26: build_knowledge_base makes at most
\* ceil(n / batch_size) * max_retries embedding calls, and once it is in its
\* batch loop it ends, returning the index or raising.
IngestTerminates ==
    /\ [](embed_calls <= TotalBatches(Len(all_documents), batch_size) * max_retries)
    /\ (ingPc = "batching") ~> (ingPc \in {"built", "failed"})

\* C26 witness: a call over two batches returned after every attempt the
\* bound allows: three on each batch.
BuiltOnLastAllowedCall ==
    /\ ingPc = "built"
    /\ max_retries = 3
    /\ TotalBatches(Len(all_documents), batch_size) = 2
    /\ embed_calls = 6

ReadyMeansNoPending ==
    \A id \in Present :
        sessions[id].status = "ready" => PendingCount(sessions[id].evidence_manifest) = 0

\* C29: once a session's status is 'complete', add_uploaded_file and
\* set_test_script leave its status 'complete' and analysis_complete true.
CompletionStable ==
    [][\A id \in DOMAIN sessions \cap DOMAIN sessions' :
         (sessions[id].status = "complete" /\ lastOp'.op \in {"add_uploaded_file", "set_test_script"})
            => (sessions'[id].status = "complete" /\ sessions'[id].analysis_complete)]_vars

\* What a session holds, an unknown id holding what a fresh session does.
Held(ms, id) ==
    IF id \in DOMAIN ms
    THEN [chat_history |-> ms[id].chat_history, message_count |-> ms[id].message_count,
          conversation_vectorstore |-> ms[id].conversation_vectorstore]
    ELSE [chat_history |-> <<>>, message_count |-> 0, conversation_vectorstore |-> NoIndex]

LastOf(s) == s[Len(s)]

\* C30: a chat request whose generation call fails leaves the session's
\* chat_history, message_count and conversation index as they were; one that
\* succeeds appends the user message and then the assistant message and
\* raises message_count by 2; message_count is always the length of
\* chat_history.
ChatAllOrNothing ==
    /\ [](\A id \in DOMAIN memSessions :
            memSessions[id].message_count = Len(memSessions[id].chat_history))
    /\ [][\A id \in Ids :
            ownLog'[id] # ownLog[id] =>
                LET e == LastOf(ownLog'[id])
                    before == Held(memSessions, id)
                    after == Held(memSessions', id)
                IN  /\ e.op = "chat_failed" => after = before
                    /\ e.op = "chat" =>
                        /\ Len(after.chat_history) = Len(before.chat_history) + 2
                        /\ SubSeq(after.chat_history, 1, Len(before.chat_history)) = before.chat_history
                        /\ after.chat_history[Len(before.chat_history) + 1].role = "user"
                        /\ after.chat_history[Len(before.chat_history) + 1].content = e.q
                        /\ after.chat_history[Len(before.chat_history) + 2].role = "assistant"
                        /\ after.chat_history[Len(before.chat_history) + 2].content = e.r
                        /\ after.message_count = before.message_count + 2]_vars

\* C30 witness: in a session that holds one exchange a chat request failed
\* at the generation call, and the session still holds that one exchange.
FailedChatAfterExchange ==
    \E id \in Ids :
        /\ Len(ownLog[id]) = 2
        /\ ownLog[id][1].op = "chat"
        /\ ownLog[id][2].op = "chat_failed"
        /\ id \in DOMAIN memSessions
        /\ memSessions[id].message_count = 2
        /\ Len(memSessions[id].conversation_vectorstore) = 1

====
